---- MODULE Spec2Model ----
(***************************************************************************)
(* Model of the router simulator's three indices (data_structures.py):     *)
(*   SnapshotIndex = BTree, RouteIndex = AVLTree, PolicyTrie = Trie,        *)
(* and of the forwarding engine that consumes them (device.py, packet.py,  *)
(* network.py).                                                            *)
(* Each index has its own specifications (SpecBTree, SpecBTreeDistinct,    *)
(* SpecAVL, SpecAVLHops, SpecAVLDeep, SpecTrie); the variables of the      *)
(* other indices and of the network keep their constructed values there.   *)
(* The network specifications (SpecNet, SpecFwd) run Network.tick packet   *)
(* by packet over configured topologies, each device with its own          *)
(* PolicyTrie, RouteIndex and SnapshotIndex.  Queues and histories hold     *)
(* references to packets, so a packet queued twice is one object; a device *)
(* is the object registered, whatever name "hostname" gives it later.      *)
(* SpecSnap saves and loads snapshots of one device (files of configs/ are *)
(* named by the second they were written in), SpecDown adds shutdown and   *)
(* offline commands, SpecLink connects and disconnects interfaces, and     *)
(* SpecLive runs the tick driver forever under weak fairness.              *)
(*                                                                         *)
(* A Python exception raised inside an operation is modelled by the state  *)
(* the object is left in at the raise, with the flag "raised" of the last  *)
(* call set: Device.save_snapshot catches it and carries on with that      *)
(* object (device.py 362-371).                                             *)
(***************************************************************************)
EXTENDS Integers, Sequences, FiniteSets, TLC

\* ------------------------------------------------------------- bounds
MaxOps == 9          \* calls of BTree.insert along one behaviour
MaxKey == 3          \* snapshot keys are 1..MaxKey (rank of the key string)
MaxVal == 2          \* snapshot values (file references) are 1..MaxVal
DistinctKeys == 9    \* keys of the distinct-key specification
AvlMaxOps == 5       \* calls of AVLTree.insert / delete along one behaviour
AvlHopOps == 3       \* the same, in the specification with two next hops
AvlDeepOps == 6      \* the same, in the specification of longer behaviours
MaxMetric == 1       \* route metrics are 0..MaxMetric
MaxSends == 2        \* packets accepted by Device.send_packet along one behaviour
MaxTicks == 2        \* calls of Network.tick along one behaviour
MaxTTL == 4          \* a packet is sent with a TTL in 1..MaxTTL
MaxAdmin == 1        \* policy, route and shutdown commands along one behaviour
FwdSends == 2        \* the same four bounds, in the specification of one routed star
FwdTicks == 1
FwdTTL == 3
FwdAdmin == 1
SnapOps == 8         \* commands along one behaviour of the snapshot specification,
SnapRoutes == 2      \*   of which only the first SnapRoutes can be route commands
MaxSeconds == 2      \* seconds of wall clock time that snapshots are saved in
LinkOps == 4         \* connect, disconnect and shutdown commands along one behaviour
DownSends == 2       \* the four bounds of the forwarding engine, in the specification
DownTicks == 1       \*   with shutdown and offline commands
DownTTL == 2
DownAdmin == 2
LiveSends == 2       \* packets along one behaviour and their TTL, in the
LiveTTL == 12        \*   specification with the tick driver

\* -------------------------------------------------- program constants
order == 4           \* BTree.__init__(order=4)
max_entries == 1000  \* ErrorLog.__init__: self.max_entries = 1000

VARIABLES
    bt_root,         \* BTree.root: nested BTreeNode
    bt_stats,        \* BTree.stats
    bt_inserted,     \* ghost: the (key, value) pairs of the insert calls that returned
    bt_count,        \* ghost: per (key, value) pair, the number of insert calls that returned
    bt_prev,         \* ghost: BTree.root before the last insert call
    bt_last,         \* ghost: the last insert call and whether it raised
    bt_ops           \* ghost: number of insert calls so far

bt_vars == <<bt_root, bt_stats, bt_inserted, bt_count, bt_prev, bt_last, bt_ops>>

VARIABLES
    avl_root,        \* AVLTree.root: nested AVLNode, NoNode for None
    avl_size,        \* AVLTree.size
    avl_stats,       \* AVLTree.stats
    avl_prev,        \* ghost: root, size and stats before the last call
    avl_last,        \* ghost: the last call and its arguments
    avl_ops,         \* ghost: number of calls so far
    avl_deletes      \* ghost: number of delete calls so far

avl_vars == <<avl_root, avl_size, avl_stats, avl_prev, avl_last, avl_ops, avl_deletes>>

VARIABLES
    trie_root,       \* Trie.root: nested TrieNode
    trie_conf,       \* ghost: the prefixes set_policy / insert_prefix were called with
    trie_pol,        \* ghost: per prefix, the policies set and not unset since
    trie_prev,       \* ghost: Trie.root before the last call
    trie_last        \* ghost: the last call and its arguments

trie_vars == <<trie_root, trie_conf, trie_pol, trie_prev, trie_last>>

VARIABLES
    netw,         \* Network: devices (in registration order), interfaces, packets
    prefix_trie,     \* per device: Device.prefix_trie (the Trie's root)
    routing_table,   \* per device: Device.routing_table (root, size, stats)
    snapshot_index,  \* per device: Device.snapshot_index (root, stats)
    configs,         \* the directory configs/: per file name, the route list written
    now,             \* the wall clock in seconds, which names the snapshot files
    pc,              \* position of Network.tick: device, interface, queue; d = 0 when idle
    net_prev,        \* ghost: network before the last step
    net_last,        \* ghost: the last step and what it worked on
    net_ops,         \* ghost: number of sends, ticks and configuration commands so far
    net_taken,       \* ghost: per packet and device, the TTL the packet had when the
                     \* device last accepted it for sending (originated or forwarded it)
    net_crossed,     \* ghost: per packet, the number of times the running (or the
                     \* last) tick moved it from an outgoing queue to a neighbour
    net_saved        \* ghost: per device and key, the routes the device held at the
                     \* last save_snapshot(key) that answered success

net_vars == <<netw, prefix_trie, routing_table, snapshot_index, configs, now, pc, net_prev, net_last, net_ops, net_taken, net_crossed, net_saved>>

vars == <<bt_vars, avl_vars, trie_vars, net_vars>>

\* ------------------------------------------------------ Python lists
Max(a, b) == IF a >= b THEN a ELSE b
Min(a, b) == IF a <= b THEN a ELSE b

\* s[lo:hi] with 0-based bounds, clamped as Python clamps a slice
PySlice(s, lo, hi) == SubSeq(s, Min(lo, Len(s)) + 1, Min(hi, Len(s)))

\* list.insert(i, x), 0-based i
PyInsert(s, i, x) == PySlice(s, 0, i) \o <<x>> \o PySlice(s, i, Len(s))

\* s[i] = x, 0-based i
PySet(s, i, x) == [s EXCEPT ![i + 1] = x]

\* --------------------------------------------------------------- BTree
None == 0            \* search's "return None": no snapshot value is 0

BTreeNode(is_leaf) ==
    [keys |-> <<>>, values |-> <<>>, children |-> <<>>, is_leaf |-> is_leaf]

BTreeInitStats == [height |-> 1, nodes |-> 1, splits |-> 0, merges |-> 0]

\* _split_child(parent, index), index 0-based.  The result is the parent as
\* the call leaves it and whether the call raised IndexError: line 528 reads
\* full_child.keys[mid_index] after line 518 has cut full_child.keys to
\* mid_index entries.
split_child(parent, index) ==
    LET full_child == parent.children[index + 1]
        mid_index  == order - 1
        new_keys   == PySlice(full_child.keys, mid_index + 1, Len(full_child.keys))
        new_values == PySlice(full_child.values, mid_index + 1, Len(full_child.values))
        cut_keys   == PySlice(full_child.keys, 0, mid_index)
        cut_values == PySlice(full_child.values, 0, mid_index)
        new_child  == [keys     |-> new_keys,
                       values   |-> new_values,
                       children |-> IF full_child.is_leaf THEN <<>>
                                    ELSE PySlice(full_child.children, mid_index + 1,
                                                 Len(full_child.children)),
                       is_leaf  |-> full_child.is_leaf]
        cut_child  == [keys     |-> cut_keys,
                       values   |-> cut_values,
                       children |-> IF full_child.is_leaf THEN full_child.children
                                    ELSE PySlice(full_child.children, 0, mid_index + 1),
                       is_leaf  |-> full_child.is_leaf]
        children2  == PyInsert(PySet(parent.children, index, cut_child),
                               index + 1, new_child)
    IN  IF mid_index < Len(cut_keys)
        THEN [raised |-> FALSE,
              node   |-> [parent EXCEPT
                            !.children = children2,
                            !.keys     = PyInsert(parent.keys, index, cut_keys[mid_index + 1]),
                            !.values   = PyInsert(parent.values, index, cut_values[mid_index + 1])]]
        ELSE [raised |-> TRUE,
              node   |-> [parent EXCEPT !.children = children2]]

\* the loop "while i >= 0 and key < node.keys[i]: i -= 1" from i (0-based);
\* the result is the final i
RECURSIVE scan_down(_, _, _)
scan_down(keys, key, i) ==
    IF i >= 0 /\ key < keys[i + 1] THEN scan_down(keys, key, i - 1) ELSE i

\* _insert_non_full(node, key, value): the node as the call leaves it, whether
\* it raised, and how many times it entered _split_child
RECURSIVE insert_non_full(_, _, _)
insert_non_full(node, key, value) ==
    LET i == scan_down(node.keys, key, Len(node.keys) - 1)
    IN  IF node.is_leaf
        THEN [raised |-> FALSE, splits |-> 0,
              node   |-> [node EXCEPT !.keys   = PyInsert(node.keys, i + 1, key),
                                      !.values = PyInsert(node.values, i + 1, value)]]
        ELSE LET j == i + 1
             IN  IF Len(node.children[j + 1].keys) = (2 * order) - 1
                 THEN LET s == split_child(node, j)
                      IN  IF s.raised
                          THEN [raised |-> TRUE, splits |-> 1, node |-> s.node]
                          ELSE LET j2 == IF key > s.node.keys[j + 1] THEN j + 1 ELSE j
                                   r  == insert_non_full(s.node.children[j2 + 1], key, value)
                               IN  [raised |-> r.raised, splits |-> 1 + r.splits,
                                    node   |-> [s.node EXCEPT !.children[j2 + 1] = r.node]]
                 ELSE LET r == insert_non_full(node.children[j + 1], key, value)
                      IN  [raised |-> r.raised, splits |-> r.splits,
                           node   |-> [node EXCEPT !.children[j + 1] = r.node]]

\* BTree.insert(key, value): root and stats as the call leaves them
BTree_insert(root, stats, key, value) ==
    IF Len(root.keys) = (2 * order) - 1
    THEN LET new_root == [BTreeNode(FALSE) EXCEPT !.children = <<root>>]
             s        == split_child(new_root, 0)
             stats1   == [stats EXCEPT !.splits = @ + 1, !.nodes = @ + 1]
         IN  IF s.raised
             \* self.root still names the old root object, which line 518 cut
             THEN [raised |-> TRUE, root |-> s.node.children[1], stats |-> stats1]
             ELSE LET r == insert_non_full(s.node, key, value)
                  IN  [raised |-> r.raised, root |-> r.node,
                       stats  |-> [stats1 EXCEPT !.height = @ + 1,
                                                 !.splits = @ + r.splits,
                                                 !.nodes  = @ + r.splits]]
    ELSE LET r == insert_non_full(root, key, value)
         IN  [raised |-> r.raised, root |-> r.node,
              stats  |-> [stats EXCEPT !.splits = @ + r.splits,
                                       !.nodes  = @ + r.splits]]

\* _search_node(node, key): first index i with not (key > keys[i])
RECURSIVE scan_up(_, _, _)
scan_up(keys, key, i) ==
    IF i < Len(keys) /\ key > keys[i + 1] THEN scan_up(keys, key, i + 1) ELSE i

RECURSIVE search_node(_, _)
search_node(node, key) ==
    LET i == scan_up(node.keys, key, 0)
    IN  IF i < Len(node.keys) /\ key = node.keys[i + 1] THEN node.values[i + 1]
        ELSE IF node.is_leaf THEN None
        ELSE search_node(node.children[i + 1], key)

BTree_search(key) == search_node(bt_root, key)

\* _in_order(node, result): the pairs appended to result
RECURSIVE in_order_from(_)
in_order_from(node) ==
    LET below(i) == IF node.is_leaf THEN <<>> ELSE in_order_from(node.children[i])
        upto[i \in 0..Len(node.keys)] ==
            IF i = 0 THEN <<>>
            ELSE upto[i - 1] \o below(i) \o << <<node.keys[i], node.values[i]>> >>
    IN  upto[Len(node.keys)]
        \o (IF node.is_leaf THEN <<>>
            \* children[-1]
            ELSE in_order_from(node.children[Len(node.children)]))

\* BTree.in_order_traversal()
BTree_in_order_traversal(root) == in_order_from(root)

\* ------------------------------------------------- dotted addresses
\* An address or mask is the tuple of its four octets; the program holds the
\* canonical dotted string and compares such strings character by character.
\* str(n) for an octet, as character codes ('0' is 48)
Digits(n) ==
    IF n < 10 THEN <<48 + n>>
    ELSE IF n < 100 THEN <<48 + (n \div 10), 48 + (n % 10)>>
    ELSE <<48 + (n \div 100), 48 + ((n \div 10) % 10), 48 + (n % 10)>>

\* the dotted string of an address, as character codes ('.' is 46)
Dotted(a) ==
    Digits(a[1]) \o <<46>> \o Digits(a[2]) \o <<46>> \o Digits(a[3]) \o <<46>> \o Digits(a[4])

\* Python's s < t on strings
RECURSIVE SeqLess(_, _, _)
SeqLess(s, t, i) ==
    IF i > Len(s) THEN i <= Len(t)
    ELSE IF i > Len(t) THEN FALSE
    ELSE IF s[i] # t[i] THEN s[i] < t[i]
    ELSE SeqLess(s, t, i + 1)

StrLess(a, b) == SeqLess(Dotted(a), Dotted(b), 1)

\* bit i (0 = most significant) of an octet, and Python's a & b on octets
Bit(n, i) == (n \div (2 ^ (7 - i))) % 2

RECURSIVE AndFrom(_, _, _)
AndFrom(a, b, i) ==
    IF i > 7 THEN 0
    ELSE Bit(a, i) * Bit(b, i) * (2 ^ (7 - i)) + AndFrom(a, b, i + 1)

BitAnd(a, b) == AndFrom(a, b, 0)

\* ------------------------------------------------------------- AVLTree
NoNode == <<>>

AVLNode(prefix, mask, next_hop, metric) ==
    [prefix |-> prefix, mask |-> mask, next_hop |-> next_hop, metric |-> metric,
     height |-> 1, left |-> NoNode, right |-> NoNode]

AVLInitStats ==
    [rotations_ll |-> 0, rotations_lr |-> 0, rotations_rl |-> 0, rotations_rr |-> 0]

get_height(node) == IF node = NoNode THEN 0 ELSE node.height

get_balance(node) ==
    IF node = NoNode THEN 0 ELSE get_height(node.left) - get_height(node.right)

update_height(node) ==
    IF node = NoNode THEN node
    ELSE [node EXCEPT !.height = 1 + Max(get_height(node.left), get_height(node.right))]

\* The rotations return the new subtree root and the stats after the call.
rotate_right(z, stats) ==
    LET y  == z.left
        T3 == y.right
        z2 == update_height([z EXCEPT !.left = T3])
        y2 == update_height([y EXCEPT !.right = z2])
    IN  [node |-> y2, stats |-> [stats EXCEPT !.rotations_ll = @ + 1]]

rotate_left(z, stats) ==
    LET y  == z.right
        T2 == y.left
        z2 == update_height([z EXCEPT !.right = T2])
        y2 == update_height([y EXCEPT !.left = z2])
    IN  [node |-> y2, stats |-> [stats EXCEPT !.rotations_rr = @ + 1]]

rotate_left_right(z, stats) ==
    LET s1 == [stats EXCEPT !.rotations_lr = @ + 1]
        l  == rotate_left(z.left, s1)
    IN  rotate_right([z EXCEPT !.left = l.node], l.stats)

rotate_right_left(z, stats) ==
    LET s1 == [stats EXCEPT !.rotations_rl = @ + 1]
        r  == rotate_right(z.right, s1)
    IN  rotate_left([z EXCEPT !.right = r.node], r.stats)

\* _compare_routes on (prefix, mask, metric) triples
compare_routes(route1, route2) ==
    IF route1[1] # route2[1] THEN (IF StrLess(route1[1], route2[1]) THEN -1 ELSE 1)
    ELSE IF route1[2] # route2[2] THEN (IF StrLess(route1[2], route2[2]) THEN -1 ELSE 1)
    ELSE IF route1[3] < route2[3] THEN -1
    ELSE IF route1[3] > route2[3] THEN 1 ELSE 0

KeyOf(node) == <<node.prefix, node.mask, node.metric>>

\* lines 290-305: the rebalancing at the end of _insert_node
insert_rebalance(node0, stats, key) ==
    LET node    == update_height(node0)
        balance == get_balance(node)
    IN  IF balance > 1 /\ compare_routes(key, KeyOf(node.left)) < 0
        THEN rotate_right(node, stats)
        ELSE IF balance < -1 /\ compare_routes(key, KeyOf(node.right)) > 0
        THEN rotate_left(node, stats)
        ELSE IF balance > 1 /\ compare_routes(key, KeyOf(node.left)) > 0
        THEN rotate_left_right(node, stats)
        ELSE IF balance < -1 /\ compare_routes(key, KeyOf(node.right)) < 0
        THEN rotate_right_left(node, stats)
        ELSE [node |-> node, stats |-> stats]

RECURSIVE insert_node(_, _, _, _, _, _)
insert_node(node, stats, prefix, mask, next_hop, metric) ==
    IF node = NoNode
    THEN [node |-> AVLNode(prefix, mask, next_hop, metric), stats |-> stats]
    ELSE LET key  == <<prefix, mask, metric>>
             comp == compare_routes(key, KeyOf(node))
         IN  IF comp < 0
             THEN LET r == insert_node(node.left, stats, prefix, mask, next_hop, metric)
                  IN  insert_rebalance([node EXCEPT !.left = r.node], r.stats, key)
             ELSE IF comp > 0
             THEN LET r == insert_node(node.right, stats, prefix, mask, next_hop, metric)
                  IN  insert_rebalance([node EXCEPT !.right = r.node], r.stats, key)
             ELSE [node  |-> [node EXCEPT !.next_hop = next_hop, !.metric = metric],
                   stats |-> stats]

\* AVLTree.insert: root, size and stats after the call
AVL_insert(root, size, stats, prefix, mask, next_hop, metric) ==
    LET r == insert_node(root, stats, prefix, mask, next_hop, metric)
    IN  [root |-> r.node, size |-> size + 1, stats |-> r.stats]

RECURSIVE find_min(_)
find_min(node) == IF node.left # NoNode THEN find_min(node.left) ELSE node

\* delete_rebalance without its rotations: heights are updated, nothing turns
delete_rebalance_norotate(node0, stats) ==
    [node |-> update_height(node0), stats |-> stats]

\* delete_rebalance that turns a node as soon as it leans to one side
delete_rebalance_eager(node0, stats) ==
    LET node    == update_height(node0)
        balance == get_balance(node)
    IN  IF balance >= 1 /\ get_balance(node.left) >= 0
        THEN rotate_right(node, stats)
        ELSE IF balance <= -1 /\ get_balance(node.right) <= 0
        THEN rotate_left(node, stats)
        ELSE [node |-> node, stats |-> stats]

\* lines 336-351: the rebalancing at the end of _delete_node
delete_rebalance(node0, stats) ==
    LET node    == update_height(node0)
        balance == get_balance(node)
    IN  IF balance > 1 /\ get_balance(node.left) >= 0
        THEN rotate_right(node, stats)
        ELSE IF balance > 1 /\ get_balance(node.left) < 0
        THEN rotate_left_right(node, stats)
        ELSE IF balance < -1 /\ get_balance(node.right) <= 0
        THEN rotate_left(node, stats)
        ELSE IF balance < -1 /\ get_balance(node.right) > 0
        THEN rotate_right_left(node, stats)
        ELSE [node |-> node, stats |-> stats]

RECURSIVE delete_node(_, _, _, _)
delete_node(node, stats, prefix, mask) ==
    IF node = NoNode
    THEN [node |-> node, stats |-> stats]
    ELSE LET comp == compare_routes(<<prefix, mask, 0>>, <<node.prefix, node.mask, 0>>)
         IN  IF comp < 0
             THEN LET r == delete_node(node.left, stats, prefix, mask)
                  IN  delete_rebalance([node EXCEPT !.left = r.node], r.stats)
             ELSE IF comp > 0
             THEN LET r == delete_node(node.right, stats, prefix, mask)
                  IN  delete_rebalance([node EXCEPT !.right = r.node], r.stats)
             ELSE IF node.left = NoNode
             THEN [node |-> node.right, stats |-> stats]
             ELSE IF node.right = NoNode
             THEN [node |-> node.left, stats |-> stats]
             ELSE LET temp == find_min(node.right)
                      r    == delete_node(node.right, stats, temp.prefix, temp.mask)
                  IN  delete_rebalance(
                          [node EXCEPT !.prefix   = temp.prefix,
                                       !.mask     = temp.mask,
                                       !.next_hop = temp.next_hop,
                                       !.metric   = temp.metric,
                                       !.right    = r.node],
                          r.stats)

\* AVLTree.delete: root, size and stats after the call
AVL_delete(root, size, stats, prefix, mask) ==
    LET r == delete_node(root, stats, prefix, mask)
    IN  [root |-> r.node, size |-> Max(0, size - 1), stats |-> r.stats]

ip_in_network(ip, network, mask) ==
    \A i \in 1..4 : BitAnd(ip[i], mask[i]) = BitAnd(network[i], mask[i])

RECURSIVE lookup_node(_, _)
lookup_node(node, dest_ip) ==
    IF node = NoNode THEN NoNode
    ELSE IF ip_in_network(dest_ip, node.prefix, node.mask)
    THEN LET right_match == lookup_node(node.right, dest_ip)
         IN  IF right_match # NoNode THEN right_match ELSE node
    ELSE IF StrLess(dest_ip, node.prefix)
    THEN lookup_node(node.left, dest_ip)
    ELSE lookup_node(node.right, dest_ip)

AVL_lookup(root, dest_ip) == lookup_node(root, dest_ip)

\* in_order_traversal: the nodes, left to right
RECURSIVE in_order(_)
in_order(node) ==
    IF node = NoNode THEN <<>>
    ELSE in_order(node.left) \o <<node>> \o in_order(node.right)

\* ---------------------------------------------------------------- Trie
EmptyMap == [x \in {} |-> x]            \* {}

TrieNode == [children |-> EmptyMap, is_end_of_prefix |-> FALSE, policies |-> EmptyMap]

\* bin(n).count('1') for an octet
PopCount(n) == Bit(n, 0) + Bit(n, 1) + Bit(n, 2) + Bit(n, 3)
             + Bit(n, 4) + Bit(n, 5) + Bit(n, 6) + Bit(n, 7)

BitChar(n, i) == IF Bit(n, i) = 1 THEN "1" ELSE "0"

\* format(n, '08b')
Format08b(n) == [i \in 1..8 |-> BitChar(n, i - 1)]

\* _prefix_to_bits: per octet, the first popcount(mask octet) characters of the
\* network part
prefix_to_bits(prefix, mask) ==
    LET part(i) == PySlice(Format08b(BitAnd(prefix[i], mask[i])), 0, PopCount(mask[i]))
    IN  part(1) \o part(2) \o part(3) \o part(4)

ip_to_bits(ip) ==
    Format08b(ip[1]) \o Format08b(ip[2]) \o Format08b(ip[3]) \o Format08b(ip[4])

\* dict.update: the entries of new override those of old
DictUpdate(old, new) == new @@ old

\* set_policy that assigns the terminal node a new dict with the one policy
RECURSIVE set_policy_from_replacing(_, _, _, _, _)
set_policy_from_replacing(node, bits, i, policy_type, policy_value) ==
    IF i > Len(bits)
    THEN [node EXCEPT !.is_end_of_prefix = TRUE,
                      !.policies = policy_type :> policy_value]
    ELSE LET bit   == bits[i]
             child == IF bit \in DOMAIN node.children THEN node.children[bit] ELSE TrieNode
         IN  [node EXCEPT !.children =
                 DictUpdate(@, bit :> set_policy_from_replacing(child, bits, i + 1,
                                                                policy_type, policy_value))]

\* lines 620-626 of set_policy, from the node reached after i - 1 bits
RECURSIVE set_policy_from(_, _, _, _, _)
set_policy_from(node, bits, i, policy_type, policy_value) ==
    IF i > Len(bits)
    THEN [node EXCEPT !.is_end_of_prefix = TRUE,
                      !.policies = DictUpdate(@, policy_type :> policy_value)]
    ELSE LET bit   == bits[i]
             child == IF bit \in DOMAIN node.children THEN node.children[bit] ELSE TrieNode
         IN  [node EXCEPT !.children =
                 DictUpdate(@, bit :> set_policy_from(child, bits, i + 1,
                                                      policy_type, policy_value))]

Trie_set_policy(root, prefix, mask, policy_type, policy_value) ==
    set_policy_from(root, prefix_to_bits(prefix, mask), 1, policy_type, policy_value)

\* lines 568-575 of insert_prefix; policies is a mapping, or None
RECURSIVE insert_prefix_from(_, _, _, _)
insert_prefix_from(node, bits, i, policies) ==
    IF i > Len(bits)
    THEN [node EXCEPT !.is_end_of_prefix = TRUE,
                      \* "if policies:" is false for None and for {}
                      !.policies = IF policies # EmptyMap THEN DictUpdate(@, policies) ELSE @]
    ELSE LET bit   == bits[i]
             child == IF bit \in DOMAIN node.children THEN node.children[bit] ELSE TrieNode
         IN  [node EXCEPT !.children =
                 DictUpdate(@, bit :> insert_prefix_from(child, bits, i + 1, policies))]

Trie_insert_prefix(root, prefix, mask, policies) ==
    insert_prefix_from(root, prefix_to_bits(prefix, mask), 1, policies)

\* the loop of get_inherited_policies from bit i on, at node, with the
\* accumulator policies
RECURSIVE inherit_from(_, _, _, _)
inherit_from(node, ip_bits, i, policies) ==
    IF i > Len(ip_bits) THEN policies
    ELSE IF ip_bits[i] \in DOMAIN node.children
    THEN LET child == node.children[ip_bits[i]]
         IN  inherit_from(child, ip_bits, i + 1,
                          IF child.is_end_of_prefix
                          THEN DictUpdate(policies, child.policies) ELSE policies)
    ELSE policies

get_inherited_policies(root, ip) == inherit_from(root, ip_to_bits(ip), 1, EmptyMap)

\* a descent that makes the child it does not find, as set_policy does
RECURSIVE inherit_walk_creating(_, _, _)
inherit_walk_creating(node, ip_bits, i) ==
    IF i > Len(ip_bits) THEN node
    ELSE LET child == IF ip_bits[i] \in DOMAIN node.children
                      THEN node.children[ip_bits[i]] ELSE TrieNode
         IN  [node EXCEPT !.children =
                 (ip_bits[i] :> inherit_walk_creating(child, ip_bits, i + 1)) @@ @]

\* the node as the loop of get_inherited_policies leaves it, from bit i on:
\* the loop goes to children[bit] only if bit is a key, and assigns to no
\* attribute of a node (update is called on the local dict)
RECURSIVE inherit_walk(_, _, _)
inherit_walk(node, ip_bits, i) ==
    IF i > Len(ip_bits) THEN node
    ELSE IF ip_bits[i] \in DOMAIN node.children
    THEN [node EXCEPT !.children[ip_bits[i]] = inherit_walk(@, ip_bits, i + 1)]
    ELSE node

\* the Trie after get_inherited_policies(ip)
Trie_after_get_inherited_policies(root, ip) == inherit_walk(root, ip_to_bits(ip), 1)

\* the loop of longest_prefix_match from bit i on, at node, with last_match
RECURSIVE match_from(_, _, _, _)
match_from(node, ip_bits, i, last_match) ==
    IF i > Len(ip_bits) THEN last_match
    ELSE IF ip_bits[i] \in DOMAIN node.children
    THEN LET child == node.children[ip_bits[i]]
         IN  match_from(child, ip_bits, i + 1,
                        IF child.is_end_of_prefix THEN child ELSE last_match)
    ELSE last_match

longest_prefix_match(root, ip) == match_from(root, ip_to_bits(ip), 1, NoNode)

\* -------------------------------------------------------------- Packet
\* A packet is an object shared by every queue and history that holds it:
\* net.packets is the heap, queues and histories hold indices into it.
NoReason == "None"                      \* drop_reason = None

Packet(source_ip, destination_ip, ttl) ==
    [source_ip |-> source_ip, destination_ip |-> destination_ip,
     ttl |-> ttl, original_ttl |-> ttl, route_trace |-> <<>>,
     delivered |-> FALSE, dropped |-> FALSE, drop_reason |-> NoReason]

add_hop(packet, device_name) ==
    [packet EXCEPT !.route_trace = Append(@, device_name)]

\* decrement_ttl: the packet afterwards and the value returned
decrement_ttl(packet) ==
    LET ttl == packet.ttl - 1
    IN  IF ttl <= 0
        THEN [ok |-> FALSE,
              packet |-> [packet EXCEPT !.ttl = ttl, !.dropped = TRUE,
                                        !.drop_reason = "TTL expired"]]
        ELSE [ok |-> TRUE, packet |-> [packet EXCEPT !.ttl = ttl]]

mark_delivered(packet) == [packet EXCEPT !.delivered = TRUE]

mark_dropped(packet, reason) ==
    [packet EXCEPT !.dropped = TRUE, !.drop_reason = reason]

\* ------------------------------------------------------------ ErrorLog
\* an entry is modelled by its error_type
log_error(errors, error_type) ==
    Append(IF Len(errors) >= max_entries THEN Tail(errors) ELSE errors, error_type)

\* ----------------------------------------------------------- Interface
\* An interface is named by the pair <<device name, interface name>>.
NoIp == <<>>                            \* ip_address = None
NoInterface == <<>>                     \* source_interface = None

Interface(ip_address, connected_interfaces) ==
    [ip_address |-> ip_address, is_up |-> TRUE,
     connected_interfaces |-> connected_interfaces,
     outgoing_queue |-> <<>>, incoming_queue |-> <<>>]

\* A device is identified by the name it was registered under (the object);
\* Device.name is a field that "hostname" changes.
Device(name, device_type, interfaces) ==
    [name |-> name, device_type |-> device_type, is_online |-> TRUE,
     interfaces |-> interfaces,
     message_history |-> <<>>, error_log |-> <<>>,
     packets_sent |-> 0, packets_forwarded |-> 0]

\* a send_packet that does not look at the state of the interface
send_packet_unguarded(n, k, pid) ==
    [ok |-> TRUE, net |-> [n EXCEPT !.ifc[k].outgoing_queue = Append(@, pid)]]

\* LinkedList.remove(data): the list without the first entry equal to data
LinkedList_remove(list, data) ==
    IF \E i \in 1..Len(list) : list[i] = data
    THEN LET first == CHOOSE i \in 1..Len(list) :
                          list[i] = data /\ \A j \in 1..(i - 1) : list[j] # data
         IN  SubSeq(list, 1, first - 1) \o SubSeq(list, first + 1, Len(list))
    ELSE list

\* Interface.connect_to(other_interface) on interface k
connect_to(n, k, other_interface) ==
    IF \E i \in 1..Len(n.ifc[k].connected_interfaces) :
           n.ifc[k].connected_interfaces[i] = other_interface
    THEN n
    ELSE LET n1 == [n EXCEPT !.ifc[k].connected_interfaces = Append(@, other_interface)]
         IN  [n1 EXCEPT !.ifc[other_interface].connected_interfaces = Append(@, k)]

\* Interface.disconnect_from(other_interface) on interface k
disconnect_from(n, k, other_interface) ==
    LET n1 == [n EXCEPT !.ifc[k].connected_interfaces =
                            LinkedList_remove(@, other_interface)]
    IN  [n1 EXCEPT !.ifc[other_interface].connected_interfaces =
                       LinkedList_remove(@, k)]

\* Interface.send_packet(packet): the value returned and the network afterwards
send_packet(n, k, pid) ==
    IF n.ifc[k].is_up /\ n.dev[k[1]].is_online
    THEN [ok |-> TRUE, net |-> [n EXCEPT !.ifc[k].outgoing_queue = Append(@, pid)]]
    ELSE [ok |-> FALSE, net |-> n]

\* Interface.receive_packet(packet)
receive_packet(n, k, pid) ==
    IF n.ifc[k].is_up /\ n.dev[k[1]].is_online
    THEN [ok |-> TRUE, net |-> [n EXCEPT !.ifc[k].incoming_queue = Append(@, pid)]]
    ELSE [ok |-> FALSE, net |-> n]

\* the loop over connected_interfaces in process_outgoing_packets, from the
\* j-th neighbour on
RECURSIVE hand_off(_, _, _, _, _)
hand_off(n, k, pid, j, packet_sent) ==
    LET conn == n.ifc[k].connected_interfaces
    IN  IF j > Len(conn) THEN [packet_sent |-> packet_sent, net |-> n]
        ELSE LET connected_if == conn[j]
             IN  IF n.ifc[connected_if].is_up /\ n.dev[connected_if[1]].is_online
                 THEN LET r == receive_packet(n, connected_if, pid)
                      IN  IF r.ok
                          THEN IF n.dev[k[1]].device_type \in {"switch", "hub"}
                               THEN hand_off(r.net, k, pid, j + 1, TRUE)
                               ELSE [packet_sent |-> TRUE, net |-> r.net]
                          ELSE hand_off(n, k, pid, j + 1, packet_sent)
                 ELSE hand_off(n, k, pid, j + 1, packet_sent)

\* one iteration of the loop of process_outgoing_packets on interface k
process_outgoing_packet(n, k) ==
    LET pid == Head(n.ifc[k].outgoing_queue)
        n1  == [n EXCEPT !.ifc[k].outgoing_queue = Tail(@)]
        d   == decrement_ttl(n1.packets[pid])
    IN  IF ~d.ok THEN [n1 EXCEPT !.packets[pid] = d.packet]
        ELSE LET n2 == [n1 EXCEPT !.packets[pid] = add_hop(d.packet, n.dev[k[1]].name)]
                 r  == hand_off(n2, k, pid, 1, FALSE)
             IN  IF r.packet_sent THEN r.net
                 ELSE [r.net EXCEPT !.packets[pid] = mark_dropped(@, "No active next hop")]

\* -------------------------------------------------------------- Device
\* the switch loop of forward_packet_from_interface, from the j-th interface on
RECURSIVE flood(_, _, _, _, _, _)
flood(n, d, pid, source_interface, j, packet_forwarded) ==
    LET names == n.dev[d].interfaces
    IN  IF j > Len(names) THEN [ok |-> packet_forwarded, net |-> n]
        ELSE LET k == <<d, names[j]>>
             IN  IF /\ k # source_interface
                    /\ n.ifc[k].is_up
                    /\ n.ifc[k].connected_interfaces # <<>>
                 THEN LET r == send_packet(n, k, pid)
                      IN  flood(r.net, d, pid, source_interface, j + 1,
                                packet_forwarded \/ r.ok)
                 ELSE flood(n, d, pid, source_interface, j + 1, packet_forwarded)

\* the same loop, taking any neighbour that has an address for the next hop
RECURSIVE send_to_addressed_neighbour(_, _, _, _, _, _)
send_to_addressed_neighbour(n, d, pid, source_interface, next_hop, j) ==
    LET names == n.dev[d].interfaces
    IN  IF j > Len(names) THEN [ok |-> FALSE, net |-> n]
        ELSE LET k    == <<d, names[j]>>
                 conn == n.ifc[k].connected_interfaces
                 r    == [ok  |-> n.ifc[k].is_up /\ n.dev[d].is_online,
                          net |-> [n EXCEPT !.ifc[k].outgoing_queue = Append(@, pid)]]
             IN  IF /\ k # source_interface
                    /\ n.ifc[k].is_up
                    /\ \E c \in 1..Len(conn) : n.ifc[conn[c]].ip_address # <<>>
                    /\ r.ok
                 THEN r
                 ELSE send_to_addressed_neighbour(n, d, pid, source_interface, next_hop, j + 1)

\* the loop that looks for an interface with the route's next hop as a
\* neighbour, from the j-th interface on: it returns at the first send that
\* succeeds
RECURSIVE send_to_next_hop(_, _, _, _, _, _)
send_to_next_hop(n, d, pid, source_interface, next_hop, j) ==
    LET names == n.dev[d].interfaces
    IN  IF j > Len(names) THEN [ok |-> FALSE, net |-> n]
        ELSE LET k    == <<d, names[j]>>
                 conn == n.ifc[k].connected_interfaces
                 r    == send_packet(n, k, pid)
             IN  IF /\ k # source_interface
                    /\ n.ifc[k].is_up
                    /\ \E c \in 1..Len(conn) : n.ifc[conn[c]].ip_address = next_hop
                    /\ r.ok
                 THEN r
                 ELSE send_to_next_hop(n, d, pid, source_interface, next_hop, j + 1)

\* the loop "Si no hay ruta especifica, usar comportamiento original", from
\* the j-th interface on
RECURSIVE send_to_any(_, _, _, _, _)
send_to_any(n, d, pid, source_interface, j) ==
    LET names == n.dev[d].interfaces
    IN  IF j > Len(names) THEN [ok |-> FALSE, net |-> n]
        ELSE LET k == <<d, names[j]>>
                 r == send_packet(n, k, pid)
             IN  IF /\ k # source_interface
                    /\ n.ifc[k].is_up
                    /\ n.ifc[k].connected_interfaces # <<>>
                    /\ r.ok
                 THEN r
                 ELSE send_to_any(n, d, pid, source_interface, j + 1)

\* a packet whose TTL equals the minimum counts as below it
below_minimum_inclusive(ttl, minimum) == ttl <= minimum

\* "TTL below minimum": packet.ttl < policies['ttl-min']
below_minimum(ttl, minimum) == ttl < minimum

\* forward_packet_from_interface(packet, source_interface) on device d, whose
\* PolicyTrie is trie and whose RouteIndex has the root table: the value
\* returned and the network afterwards
forward_packet_from_interface(n, trie, table, d, pid, source_interface) ==
    LET packet   == n.packets[pid]
        policies == get_inherited_policies(trie, packet.destination_ip)
        forwarded(r) ==
            [ok |-> TRUE, net |-> [r.net EXCEPT !.dev[d].packets_forwarded = @ + 1]]
        no_route ==
            [ok |-> FALSE,
             net |-> [n EXCEPT !.packets[pid] = mark_dropped(@, "No route to destination"),
                               !.dev[d].error_log = log_error(@, "RoutingError")]]
    IN  IF ~n.dev[d].is_online THEN [ok |-> FALSE, net |-> n]
        ELSE IF "block" \in DOMAIN policies
        THEN [ok |-> FALSE,
              net |-> [n EXCEPT !.packets[pid] = mark_dropped(@, "Blocked by policy"),
                                !.dev[d].error_log = log_error(@, "PolicyBlock")]]
        ELSE IF "ttl-min" \in DOMAIN policies /\ below_minimum(packet.ttl, policies["ttl-min"])
        THEN [ok |-> FALSE,
              net |-> [n EXCEPT !.packets[pid] = mark_dropped(@, "TTL below minimum"),
                                !.dev[d].error_log = log_error(@, "PolicyTTL")]]
        ELSE IF n.dev[d].device_type = "switch"
        THEN LET r == flood(n, d, pid, source_interface, 1, FALSE)
             IN  IF r.ok THEN forwarded(r) ELSE no_route
        ELSE LET route == AVL_lookup(table, packet.destination_ip)
                 h     == IF route # NoNode
                          THEN send_to_next_hop(n, d, pid, source_interface,
                                                route.next_hop, 1)
                          ELSE [ok |-> FALSE, net |-> n]
                 a     == send_to_any(n, d, pid, source_interface, 1)
             IN  IF h.ok THEN forwarded(h)
                 ELSE IF a.ok THEN forwarded(a)
                 ELSE no_route

\* the same iteration, entering a delivered packet at the far end of the history
process_incoming_packet_appended(n, trie, table, k) ==
    LET pid == Head(n.ifc[k].incoming_queue)
        n1  == [n EXCEPT !.ifc[k].incoming_queue = Tail(@)]
    IN  IF /\ n1.ifc[k].ip_address # <<>>
           /\ n1.packets[pid].destination_ip = n1.ifc[k].ip_address
        THEN [n1 EXCEPT !.packets[pid] = mark_delivered(@),
                        !.dev[k[1]].message_history = Append(@, pid)]
        ELSE forward_packet_from_interface(n1, trie, table, k[1], pid, k).net

\* one iteration of the loop of process_incoming_packets on interface k
process_incoming_packet(n, trie, table, k) ==
    LET pid == Head(n.ifc[k].incoming_queue)
        n1  == [n EXCEPT !.ifc[k].incoming_queue = Tail(@)]
    IN  IF /\ n1.ifc[k].ip_address # NoIp
           /\ n1.packets[pid].destination_ip = n1.ifc[k].ip_address
        THEN [n1 EXCEPT !.packets[pid] = mark_delivered(@),
                        \* Stack.push: the new entry is the top
                        !.dev[k[1]].message_history = <<pid>> \o @]
        ELSE forward_packet_from_interface(n1, trie, table, k[1], pid, k).net

\* Device.send_packet(source_ip, destination_ip, content, ttl) on device d
RECURSIVE find_source(_, _, _, _)
find_source(n, d, source_ip, j) ==
    LET names == n.dev[d].interfaces
    IN  IF j > Len(names) THEN NoInterface
        ELSE IF n.ifc[<<d, names[j]>>].ip_address = source_ip THEN <<d, names[j]>>
        ELSE find_source(n, d, source_ip, j + 1)

Device_send_packet(n, d, source_ip, destination_ip, ttl) ==
    LET source_interface == find_source(n, d, source_ip, 1)
        pid    == Len(n.packets) + 1
        packet == add_hop(Packet(source_ip, destination_ip, ttl), n.dev[d].name)
        r      == send_packet([n EXCEPT !.packets = Append(@, packet)],
                              source_interface, pid)
    IN  IF ~n.dev[d].is_online \/ source_interface = NoInterface
        THEN [ok |-> FALSE, net |-> n]
        ELSE IF r.ok
        THEN [ok |-> TRUE, net |-> [r.net EXCEPT !.dev[d].packets_sent = @ + 1]]
        \* the packet that was not queued is referenced by nothing
        ELSE [ok |-> FALSE, net |-> n]

\* SendCommand: the address of the first up interface that has one
RECURSIVE first_source_ip(_, _, _)
first_source_ip(n, d, j) ==
    LET names == n.dev[d].interfaces
    IN  IF j > Len(names) THEN NoIp
        ELSE IF n.ifc[<<d, names[j]>>].ip_address # NoIp /\ n.ifc[<<d, names[j]>>].is_up
        THEN n.ifc[<<d, names[j]>>].ip_address
        ELSE first_source_ip(n, d, j + 1)

\* ------------------------------------------------------------- Network
\* Network.tick visits the devices in the order of Network.devices, and
\* process_all_interfaces the interfaces in the order of Device.interfaces;
\* on each up interface of an online device it drains the outgoing queue,
\* then the incoming queue.  A position names the device, the interface and
\* the queue being drained; Idle is "no tick is running".
Idle == [d |-> 0, i |-> 0, q |-> "out"]

\* a tick that drains outgoing queues only
RECURSIVE next_position_outgoing_only(_, _)
next_position_outgoing_only(n, pos) ==
    IF pos.d > Len(n.order) THEN Idle
    ELSE LET d     == n.order[pos.d]
             names == n.dev[d].interfaces
         IN  IF ~n.dev[d].is_online \/ pos.i > Len(names)
             THEN next_position_outgoing_only(n, [d |-> pos.d + 1, i |-> 1, q |-> "out"])
             ELSE LET k == <<d, names[pos.i]>>
                  IN  IF n.ifc[k].is_up /\ n.ifc[k].outgoing_queue # <<>>
                      THEN [pos EXCEPT !.q = "out"]
                      ELSE next_position_outgoing_only(
                               n, [d |-> pos.d, i |-> pos.i + 1, q |-> "out"])

\* the position of the next packet the tick dequeues, from pos on
RECURSIVE next_position(_, _)
next_position(n, pos) ==
    IF pos.d > Len(n.order) THEN Idle
    ELSE LET d     == n.order[pos.d]
             names == n.dev[d].interfaces
         IN  IF ~n.dev[d].is_online \/ pos.i > Len(names)
             THEN next_position(n, [d |-> pos.d + 1, i |-> 1, q |-> "out"])
             ELSE LET k == <<d, names[pos.i]>>
                  IN  IF ~n.ifc[k].is_up
                      THEN next_position(n, [d |-> pos.d, i |-> pos.i + 1, q |-> "out"])
                      ELSE IF pos.q = "out"
                      THEN IF n.ifc[k].outgoing_queue # <<>> THEN pos
                           ELSE next_position(n, [pos EXCEPT !.q = "in"])
                      ELSE IF n.ifc[k].incoming_queue # <<>> THEN pos
                           ELSE next_position(n, [d |-> pos.d, i |-> pos.i + 1, q |-> "out"])

\* the interface a position names
InterfaceAt(n, pos) == <<n.order[pos.d], n.dev[n.order[pos.d]].interfaces[pos.i]>>

\* -------------------------------------------------------------- inputs
\* The (prefix, mask) pairs of the routes that are configured.  In string
\* order 0.0.0.0 < 10.0.10.0 < 10.0.8.0, and 10.0.8.0/21 contains 10.0.10.0/24.
Net0  == [prefix |-> <<0, 0, 0, 0>>,   mask |-> <<0, 0, 0, 0>>]
Net21 == [prefix |-> <<10, 0, 8, 0>>,  mask |-> <<255, 255, 248, 0>>]
Net24 == [prefix |-> <<10, 0, 10, 0>>, mask |-> <<255, 255, 255, 0>>]
Nets == {Net0, Net21, Net24}

Hop1 == <<10, 0, 0, 1>>
Hop2 == <<10, 0, 0, 2>>

\* destinations: inside all three networks, inside two, inside the default only
Dests == {<<10, 0, 10, 5>>, <<10, 0, 9, 5>>, <<9, 0, 0, 1>>}

\* The prefixes policies are set on (section 8 of the specification, and the
\* default prefix), the policies, and the addresses looked up
Pfx0  == [prefix |-> <<0, 0, 0, 0>>,  mask |-> <<0, 0, 0, 0>>]
Pfx16 == [prefix |-> <<10, 0, 0, 0>>, mask |-> <<255, 255, 0, 0>>]
Pfx24 == [prefix |-> <<10, 0, 2, 0>>, mask |-> <<255, 255, 255, 0>>]
Prefixes == {Pfx0, Pfx16, Pfx24}

Policies == {<<"block", TRUE>>, <<"ttl-min", 3>>, <<"ttl-min", 5>>}
Kinds == {"block", "ttl-min"}

Addrs == {<<10, 0, 2, 5>>, <<10, 0, 9, 9>>, <<11, 0, 0, 1>>}

\* The configured networks.  Star: PC1, PC2 and PC3 each on one interface of
\* Core (g0, g1, g2), Core being a router, a switch or a hub.  Twin: PC1 on g0
\* of the switch Core, and eth0 of PC2 connected to both g1 and g2.
\* Registration order is PC1, Core, PC2, PC3.
Ip1 == <<10, 0, 1, 1>>
Ip2 == <<10, 0, 2, 5>>
Ip3 == <<10, 0, 9, 9>>
Outside == <<11, 0, 0, 1>>

Star(device_type) ==
    [order |-> <<"PC1", "Core", "PC2", "PC3">>,
     dev   |-> [d \in {"PC1", "Core", "PC2", "PC3"} |->
                   IF d = "Core" THEN Device(d, device_type, <<"g0", "g1", "g2">>)
                   ELSE Device(d, "host", <<"eth0">>)],
     ifc   |-> (<<"PC1", "eth0">> :> Interface(Ip1, << <<"Core", "g0">> >>))
            @@ (<<"Core", "g0">>  :> Interface(NoIp, << <<"PC1", "eth0">> >>))
            @@ (<<"Core", "g1">>  :> Interface(NoIp, << <<"PC2", "eth0">> >>))
            @@ (<<"Core", "g2">>  :> Interface(NoIp, << <<"PC3", "eth0">> >>))
            @@ (<<"PC2", "eth0">> :> Interface(Ip2, << <<"Core", "g1">> >>))
            @@ (<<"PC3", "eth0">> :> Interface(Ip3, << <<"Core", "g2">> >>)),
     packets |-> <<>>]

Twin ==
    [order |-> <<"PC1", "Core", "PC2">>,
     dev   |-> [d \in {"PC1", "Core", "PC2"} |->
                   IF d = "Core" THEN Device(d, "switch", <<"g0", "g1", "g2">>)
                   ELSE Device(d, "host", <<"eth0">>)],
     ifc   |-> (<<"PC1", "eth0">> :> Interface(Ip1, << <<"Core", "g0">> >>))
            @@ (<<"Core", "g0">>  :> Interface(NoIp, << <<"PC1", "eth0">> >>))
            @@ (<<"Core", "g1">>  :> Interface(NoIp, << <<"PC2", "eth0">> >>))
            @@ (<<"Core", "g2">>  :> Interface(NoIp, << <<"PC2", "eth0">> >>))
            @@ (<<"PC2", "eth0">> :> Interface(Ip2, << <<"Core", "g1">>, <<"Core", "g2">> >>)),
     packets |-> <<>>]

Topologies == {Star("router"), Star("switch"), Star("hub"), Twin}

\* a host and a switch whose interfaces are up and not connected
Loose ==
    [order |-> <<"PC1", "Core">>,
     dev   |-> [d \in {"PC1", "Core"} |->
                   IF d = "Core" THEN Device(d, "switch", <<"g0", "g1">>)
                   ELSE Device(d, "host", <<"eth0">>)],
     ifc   |-> (<<"PC1", "eth0">> :> Interface(Ip1, <<>>))
            @@ (<<"Core", "g0">>  :> Interface(NoIp, <<>>))
            @@ (<<"Core", "g1">>  :> Interface(NoIp, <<>>)),
     packets |-> <<>>]

\* a host with two interfaces that were given the same address, on a switch
Dual ==
    [order |-> <<"PC1", "Core", "PC2">>,
     dev   |-> [d \in {"PC1", "Core", "PC2"} |->
                   IF d = "Core" THEN Device(d, "switch", <<"g0", "g1", "g2">>)
                   ELSE IF d = "PC1" THEN Device(d, "host", <<"eth0", "eth1">>)
                   ELSE Device(d, "host", <<"eth0">>)],
     ifc   |-> (<<"PC1", "eth0">> :> Interface(Ip1, << <<"Core", "g0">> >>))
            @@ (<<"PC1", "eth1">> :> Interface(Ip1, << <<"Core", "g1">> >>))
            @@ (<<"Core", "g0">>  :> Interface(NoIp, << <<"PC1", "eth0">> >>))
            @@ (<<"Core", "g1">>  :> Interface(NoIp, << <<"PC1", "eth1">> >>))
            @@ (<<"Core", "g2">>  :> Interface(NoIp, << <<"PC2", "eth0">> >>))
            @@ (<<"PC2", "eth0">> :> Interface(Ip2, << <<"Core", "g2">> >>)),
     packets |-> <<>>]

\* three switches in a ring, a host on the first and a host on the third
Ring ==
    [order |-> <<"PC1", "S1", "S2", "S3", "PC2">>,
     dev   |-> [d \in {"PC1", "S1", "S2", "S3", "PC2"} |->
                   IF d = "S2" THEN Device(d, "switch", <<"g1", "g2">>)
                   ELSE IF d \in {"S1", "S3"} THEN Device(d, "switch", <<"g0", "g1", "g2">>)
                   ELSE Device(d, "host", <<"eth0">>)],
     ifc   |-> (<<"PC1", "eth0">> :> Interface(Ip1, << <<"S1", "g0">> >>))
            @@ (<<"S1", "g0">>    :> Interface(NoIp, << <<"PC1", "eth0">> >>))
            @@ (<<"S1", "g1">>    :> Interface(NoIp, << <<"S2", "g1">> >>))
            @@ (<<"S1", "g2">>    :> Interface(NoIp, << <<"S3", "g1">> >>))
            @@ (<<"S2", "g1">>    :> Interface(NoIp, << <<"S1", "g1">> >>))
            @@ (<<"S2", "g2">>    :> Interface(NoIp, << <<"S3", "g2">> >>))
            @@ (<<"S3", "g0">>    :> Interface(NoIp, << <<"PC2", "eth0">> >>))
            @@ (<<"S3", "g1">>    :> Interface(NoIp, << <<"S1", "g2">> >>))
            @@ (<<"S3", "g2">>    :> Interface(NoIp, << <<"S2", "g2">> >>))
            @@ (<<"PC2", "eth0">> :> Interface(Ip2, << <<"S3", "g0">> >>)),
     packets |-> <<>>]

Senders == {"PC1"}
NetDests == {Ip2, Ip3, Outside}
PolicyDevices == {"Core", "PC2"}
NetPrefixes == {Pfx16, Pfx24}
NetPolicies == {<<"block", TRUE>>, <<"ttl-min", 2>>}
RouteNets == {Net0, Pfx16}
NextHops == {Ip2, Ip3}
NewNames == {"Hub1"}
SnapshotKeys == {1}

\* ------------------------------------------------------------- actions
BTreeInit ==
    /\ bt_root = BTreeNode(TRUE)
    /\ bt_stats = BTreeInitStats
    /\ bt_inserted = {}
    /\ bt_count = [pair \in (1..Max(MaxKey, DistinctKeys)) \X (1..MaxVal) |-> 0]
    /\ bt_prev = BTreeNode(TRUE)
    /\ bt_last = [op |-> "init", key |-> 0, value |-> 0, raised |-> FALSE]
    /\ bt_ops = 0

AVLInit ==
    /\ avl_root = NoNode
    /\ avl_size = 0
    /\ avl_stats = AVLInitStats
    /\ avl_prev = [root |-> NoNode, size |-> 0, stats |-> AVLInitStats]
    /\ avl_last = [op |-> "init"]
    /\ avl_ops = 0
    /\ avl_deletes = 0

TrieInit ==
    /\ trie_root = TrieNode
    /\ trie_conf = {}
    /\ trie_pol = [p \in Prefixes |-> EmptyMap]
    /\ trie_prev = TrieNode
    /\ trie_last = [op |-> "init"]

\* Network(): no device is registered
NetInit ==
    /\ netw = [order |-> <<>>, dev |-> EmptyMap, ifc |-> EmptyMap, packets |-> <<>>]
    /\ prefix_trie = EmptyMap
    /\ routing_table = EmptyMap
    /\ snapshot_index = EmptyMap
    /\ configs = EmptyMap
    /\ now = 1
    /\ pc = Idle
    /\ net_prev = netw
    /\ net_last = [op |-> "init", k |-> NoInterface, pid |-> 0]
    /\ net_ops = [sends |-> 0, ticks |-> 0, admin |-> 0]
    /\ net_taken = EmptyMap
    /\ net_crossed = EmptyMap
    /\ net_saved = EmptyMap

Init == BTreeInit /\ AVLInit /\ TrieInit /\ NetInit

\* a network after "add device", "interface", "ip address", "no shutdown" and
\* "connect": every device with the indices Device.__init__ gives it
NetConfigured(topologies) ==
    /\ netw \in topologies
    /\ prefix_trie = [d \in DOMAIN netw.dev |-> TrieNode]
    /\ routing_table = [d \in DOMAIN netw.dev |->
                           [root |-> NoNode, size |-> 0, stats |-> AVLInitStats]]
    /\ snapshot_index = [d \in DOMAIN netw.dev |->
                            [root |-> BTreeNode(TRUE), stats |-> BTreeInitStats]]
    /\ configs = EmptyMap
    /\ now = 1
    /\ pc = Idle
    /\ net_prev = netw
    /\ net_last = [op |-> "init", k |-> NoInterface, pid |-> 0]
    /\ net_ops = [sends |-> 0, ticks |-> 0, admin |-> 0]
    /\ net_taken = EmptyMap
    /\ net_crossed = EmptyMap
    /\ net_saved = EmptyMap

InitNet == BTreeInit /\ AVLInit /\ TrieInit /\ NetConfigured(Topologies)

\* SnapshotIndex.insert(key, value)
BTInsert(key, value) ==
    /\ bt_ops < MaxOps
    /\ LET r == BTree_insert(bt_root, bt_stats, key, value)
       IN  /\ bt_root' = r.root
           /\ bt_stats' = r.stats
           /\ bt_last' = [op |-> "insert", key |-> key, value |-> value,
                          raised |-> r.raised]
           /\ bt_inserted' = IF r.raised THEN bt_inserted
                             ELSE bt_inserted \cup {<<key, value>>}
           /\ bt_count' = IF r.raised THEN bt_count
                          ELSE [bt_count EXCEPT ![<<key, value>>] = @ + 1]
    /\ bt_prev' = bt_root
    /\ bt_ops' = bt_ops + 1
    /\ UNCHANGED <<avl_vars, trie_vars, net_vars>>

\* a key that was not inserted before
BTInsertDistinct(key) ==
    /\ \A p \in bt_inserted : p[1] # key
    /\ BTInsert(key, 1)

\* RouteIndex.insert(prefix, mask, next_hop, metric)
AVLInsert(net, next_hop, metric, limit) ==
    /\ avl_ops < limit
    /\ LET r == AVL_insert(avl_root, avl_size, avl_stats,
                           net.prefix, net.mask, next_hop, metric)
       IN  /\ avl_root' = r.root
           /\ avl_size' = r.size
           /\ avl_stats' = r.stats
    /\ avl_prev' = [root |-> avl_root, size |-> avl_size, stats |-> avl_stats]
    /\ avl_last' = [op |-> "insert", prefix |-> net.prefix, mask |-> net.mask,
                    next_hop |-> next_hop, metric |-> metric]
    /\ avl_ops' = avl_ops + 1
    /\ UNCHANGED <<avl_deletes, bt_vars, trie_vars, net_vars>>

\* RouteIndex.delete(prefix, mask)
AVLDelete(net, limit) ==
    /\ avl_ops < limit
    /\ LET r == AVL_delete(avl_root, avl_size, avl_stats, net.prefix, net.mask)
       IN  /\ avl_root' = r.root
           /\ avl_size' = r.size
           /\ avl_stats' = r.stats
    /\ avl_prev' = [root |-> avl_root, size |-> avl_size, stats |-> avl_stats]
    /\ avl_last' = [op |-> "delete", prefix |-> net.prefix, mask |-> net.mask]
    /\ avl_ops' = avl_ops + 1
    /\ avl_deletes' = avl_deletes + 1
    /\ UNCHANGED <<bt_vars, trie_vars, net_vars>>

\* PolicyTrie.setPolicy(prefix, mask, kind, value)
TrieSetPolicy(pfx, policy) ==
    /\ trie_root' = Trie_set_policy(trie_root, pfx.prefix, pfx.mask, policy[1], policy[2])
    /\ trie_conf' = trie_conf \cup {pfx}
    /\ trie_pol' = [trie_pol EXCEPT ![pfx] = DictUpdate(@, policy[1] :> policy[2])]
    /\ trie_prev' = trie_root
    /\ trie_last' = [op |-> "set", pfx |-> pfx, kind |-> policy[1], value |-> policy[2]]
    /\ UNCHANGED <<bt_vars, avl_vars, net_vars>>

\* "policy unset <prefix> <mask>": PolicyCommand._handle_policy_unset calls
\* insert_prefix(prefix, mask, {})
TriePolicyUnset(pfx) ==
    /\ trie_root' = Trie_insert_prefix(trie_root, pfx.prefix, pfx.mask, EmptyMap)
    /\ trie_conf' = trie_conf \cup {pfx}
    /\ trie_pol' = [trie_pol EXCEPT ![pfx] = EmptyMap]
    /\ trie_prev' = trie_root
    /\ trie_last' = [op |-> "unset", pfx |-> pfx]
    /\ UNCHANGED <<bt_vars, avl_vars, net_vars>>

\* "send <dest_ip> <message> [ttl]" on device d, between ticks
SendPacket(d, destination_ip, ttl, limit) ==
    /\ pc = Idle
    /\ net_ops.sends < limit
    /\ d \in DOMAIN netw.dev
    /\ first_source_ip(netw, d, 1) # NoIp
    /\ LET r == Device_send_packet(netw, d, first_source_ip(netw, d, 1), destination_ip, ttl)
       IN  /\ netw' = r.net
           /\ net_last' = [op |-> IF r.ok THEN "send" ELSE "send-failed",
                           k |-> find_source(netw, d, first_source_ip(netw, d, 1), 1),
                           pid |-> Len(r.net.packets)]
    /\ net_prev' = netw
    /\ net_ops' = [net_ops EXCEPT !.sends = @ + 1]
    /\ net_taken' = IF Device_send_packet(netw, d, first_source_ip(netw, d, 1),
                                          destination_ip, ttl).ok
                     THEN (<<Len(netw.packets) + 1, d>> :> ttl) @@ net_taken
                     ELSE net_taken
    /\ UNCHANGED <<prefix_trie, routing_table, pc, snapshot_index, configs, now, net_crossed, net_saved, bt_vars, avl_vars, trie_vars>>

\* "policy set <prefix> <mask> <ttl-min N | block>" on device d, between ticks
PolicySet(d, pfx, policy, limit) ==
    /\ pc = Idle
    /\ net_ops.admin < limit
    /\ d \in DOMAIN netw.dev
    /\ prefix_trie' = [prefix_trie EXCEPT ![d] =
                          Trie_set_policy(@, pfx.prefix, pfx.mask, policy[1], policy[2])]
    /\ net_prev' = netw
    /\ net_last' = [op |-> "policy", k |-> NoInterface, pid |-> 0]
    /\ net_ops' = [net_ops EXCEPT !.admin = @ + 1]
    /\ UNCHANGED <<netw, routing_table, pc, net_taken, snapshot_index, configs, now, net_crossed, net_saved, bt_vars, avl_vars, trie_vars>>

\* "ip route add <prefix> <mask> via <next-hop>" on device d, between ticks
RouteAdd(d, route_net, next_hop, limit) ==
    /\ pc = Idle
    /\ net_ops.admin < limit
    /\ d \in DOMAIN netw.dev
    /\ routing_table' = [routing_table EXCEPT ![d] =
                            AVL_insert(@.root, @.size, @.stats,
                                       route_net.prefix, route_net.mask, next_hop, 0)]
    /\ net_prev' = netw
    /\ net_last' = [op |-> "route", k |-> NoInterface, pid |-> 0]
    /\ net_ops' = [net_ops EXCEPT !.admin = @ + 1]
    /\ UNCHANGED <<netw, prefix_trie, pc, net_taken, snapshot_index, configs, now, net_crossed, net_saved, bt_vars, avl_vars, trie_vars>>

\* "shutdown" on interface k, between ticks
Shutdown(k, limit) ==
    /\ pc = Idle
    /\ net_ops.admin < limit
    /\ k \in DOMAIN netw.ifc
    /\ netw.ifc[k].is_up
    /\ netw' = [netw EXCEPT !.ifc[k].is_up = FALSE]
    /\ net_prev' = netw
    /\ net_last' = [op |-> "shutdown", k |-> k, pid |-> 0]
    /\ net_ops' = [net_ops EXCEPT !.admin = @ + 1]
    /\ UNCHANGED <<prefix_trie, routing_table, pc, net_taken, snapshot_index, configs, now, net_crossed, net_saved, bt_vars, avl_vars, trie_vars>>

\* "connect <interface1> <device2> <interface2>", between ticks:
\* Network.connect_devices refuses when one of the interfaces is down
Connect(k, other_interface, limit) ==
    /\ pc = Idle
    /\ net_ops.admin < limit
    /\ k \in DOMAIN netw.ifc
    /\ other_interface \in DOMAIN netw.ifc
    /\ netw' = IF netw.ifc[k].is_up /\ netw.ifc[other_interface].is_up
               THEN connect_to(netw, k, other_interface)
               ELSE netw
    /\ net_prev' = netw
    /\ net_last' = [op |-> "connect", k |-> k, pid |-> 0, other |-> other_interface]
    /\ net_ops' = [net_ops EXCEPT !.admin = @ + 1]
    /\ UNCHANGED <<prefix_trie, routing_table, pc, net_taken, snapshot_index, configs, now, net_crossed, net_saved, bt_vars, avl_vars, trie_vars>>

\* "disconnect <interface1> <device2> <interface2>", between ticks
Disconnect(k, other_interface, limit) ==
    /\ pc = Idle
    /\ net_ops.admin < limit
    /\ k \in DOMAIN netw.ifc
    /\ other_interface \in DOMAIN netw.ifc
    /\ netw' = disconnect_from(netw, k, other_interface)
    /\ net_prev' = netw
    /\ net_last' = [op |-> "disconnect", k |-> k, pid |-> 0, other |-> other_interface]
    /\ net_ops' = [net_ops EXCEPT !.admin = @ + 1]
    /\ UNCHANGED <<prefix_trie, routing_table, pc, net_taken, snapshot_index, configs, now, net_crossed, net_saved, bt_vars, avl_vars, trie_vars>>

\* "set_device_status <device> offline", between ticks
SetOffline(d, limit) ==
    /\ pc = Idle
    /\ net_ops.admin < limit
    /\ d \in DOMAIN netw.dev
    /\ netw.dev[d].is_online
    /\ netw' = [netw EXCEPT !.dev[d].is_online = FALSE]
    /\ net_prev' = netw
    /\ net_last' = [op |-> "offline", k |-> NoInterface, pid |-> 0]
    /\ net_ops' = [net_ops EXCEPT !.admin = @ + 1]
    /\ UNCHANGED <<prefix_trie, routing_table, pc, net_taken, snapshot_index, configs, now, net_crossed, net_saved, bt_vars, avl_vars, trie_vars>>

\* the route list save_snapshot exports: the in-order traversal of the AVL
exported_routes(root) ==
    [i \in 1..Len(in_order(root)) |->
        [prefix   |-> in_order(root)[i].prefix,
         mask     |-> in_order(root)[i].mask,
         next_hop |-> in_order(root)[i].next_hop,
         metric   |-> in_order(root)[i].metric]]

\* "save snapshot <key>" on device d, between ticks, at second timestamp:
\* Device.save_snapshot writes the route list to snap_<timestamp>.cfg (the
\* file name is modelled by the timestamp) and indexes the file name under
\* key.  A failing write and an exception of the insert are caught, logged as
\* "SaveError" and answered with (False, message).
SaveSnapshot(d, key, timestamp, writable, limit) ==
    /\ pc = Idle
    /\ net_ops.admin < limit
    /\ d \in DOMAIN netw.dev
    /\ timestamp >= now
    /\ now' = timestamp
    /\ LET filename == timestamp
           r == BTree_insert(snapshot_index[d].root, snapshot_index[d].stats,
                             key, filename)
           success == writable /\ ~r.raised
       IN  /\ configs' = IF writable
                         THEN [f \in DOMAIN configs \cup {filename} |->
                                  IF f = filename
                                  THEN exported_routes(routing_table[d].root)
                                  ELSE configs[f]]
                         ELSE configs
           /\ snapshot_index' = IF writable
                                THEN [snapshot_index EXCEPT ![d] =
                                         [root |-> r.root, stats |-> r.stats]]
                                ELSE snapshot_index
           /\ netw' = IF success THEN netw
                      ELSE [netw EXCEPT !.dev[d].error_log = log_error(@, "SaveError")]
           /\ net_last' = [op |-> "snapshot", k |-> NoInterface, pid |-> 0,
                           d |-> d, key |-> key, success |-> success]
           /\ net_saved' = IF success
                           THEN (<<d, key>> :> exported_routes(routing_table[d].root))
                                @@ net_saved
                           ELSE net_saved
    /\ net_prev' = netw
    /\ net_ops' = [net_ops EXCEPT !.admin = @ + 1]
    /\ UNCHANGED <<prefix_trie, routing_table, pc, net_taken, net_crossed, bt_vars, avl_vars, trie_vars>>

\* the loop of load_snapshot: insert the routes of the file from the i-th on
RECURSIVE restore_routes(_, _, _)
restore_routes(table, routes, i) ==
    IF i > Len(routes) THEN table
    ELSE restore_routes(AVL_insert(table.root, table.size, table.stats,
                                   routes[i].prefix, routes[i].mask,
                                   routes[i].next_hop, routes[i].metric),
                        routes, i + 1)

\* "load config <key>" on device d, between ticks: Device.load_snapshot
\* searches the index for the file name, reads the file and builds a new
\* routing table from its route list.  A key that is not found and a file that
\* cannot be read are logged as "LoadError" and answered with (False, message).
LoadSnapshot(d, key, readable, limit) ==
    /\ pc = Idle
    /\ net_ops.admin < limit
    /\ d \in DOMAIN netw.dev
    /\ LET filename == search_node(snapshot_index[d].root, key)
           success  == filename # None /\ readable /\ filename \in DOMAIN configs
       IN  /\ routing_table' =
                  IF success
                  THEN [routing_table EXCEPT ![d] =
                           restore_routes([root |-> NoNode, size |-> 0,
                                           stats |-> AVLInitStats],
                                          configs[filename], 1)]
                  ELSE routing_table
           /\ netw' = IF success THEN netw
                      ELSE [netw EXCEPT !.dev[d].error_log = log_error(@, "LoadError")]
           /\ net_last' = [op |-> "load", k |-> NoInterface, pid |-> 0,
                           d |-> d, key |-> key, success |-> success]
    /\ net_prev' = netw
    /\ net_ops' = [net_ops EXCEPT !.admin = @ + 1]
    /\ UNCHANGED <<prefix_trie, snapshot_index, configs, now, pc, net_taken, net_crossed, net_saved, bt_vars, avl_vars, trie_vars>>

\* "hostname <new_name>" on device d, between ticks: the entry of the device is
\* popped from Network.devices and stored again under the new name, which
\* puts it last in the order of the dict
Hostname(d, new_name, limit) ==
    /\ pc = Idle
    /\ net_ops.admin < limit
    /\ d \in DOMAIN netw.dev
    /\ \A e \in DOMAIN netw.dev : netw.dev[e].name # new_name
    /\ netw' = [netw EXCEPT !.dev[d].name = new_name,
                            !.order = Append(SelectSeq(@, LAMBDA e : e # d), d)]
    /\ net_prev' = netw
    /\ net_last' = [op |-> "hostname", k |-> NoInterface, pid |-> 0]
    /\ net_ops' = [net_ops EXCEPT !.admin = @ + 1]
    /\ UNCHANGED <<prefix_trie, routing_table, pc, net_taken, snapshot_index, configs, now, net_crossed, net_saved, bt_vars, avl_vars, trie_vars>>

\* Network.tick is called: it runs to its end (ProcessOutgoing and
\* ProcessIncoming, one packet each) before another command is read
Tick(limit) ==
    /\ pc = Idle
    /\ net_ops.ticks < limit
    /\ pc' = next_position(netw, [d |-> 1, i |-> 1, q |-> "out"])
    /\ net_prev' = netw
    /\ net_last' = [op |-> "tick", k |-> NoInterface, pid |-> 0]
    /\ net_ops' = [net_ops EXCEPT !.ticks = @ + 1]
    /\ net_crossed' = [pid \in 1..Len(netw.packets) |-> 0]
    /\ UNCHANGED <<netw, prefix_trie, routing_table, net_taken, snapshot_index, configs, now, net_saved, bt_vars, avl_vars, trie_vars>>

\* the tick driver: Network.tick is called again and again, not counted
RepeatedTick ==
    /\ pc = Idle
    /\ pc' = next_position(netw, [d |-> 1, i |-> 1, q |-> "out"])
    /\ net_prev' = netw
    /\ net_last' = [op |-> "tick", k |-> NoInterface, pid |-> 0]
    /\ net_crossed' = [pid \in 1..Len(netw.packets) |-> 0]
    /\ UNCHANGED <<netw, prefix_trie, routing_table, net_ops, net_taken, snapshot_index, configs, now, net_saved, bt_vars, avl_vars, trie_vars>>

\* the running tick takes the next packet from an outgoing queue
ProcessOutgoing ==
    /\ pc # Idle
    /\ pc.q = "out"
    /\ LET k == InterfaceAt(netw, pc)
       IN  /\ netw' = process_outgoing_packet(netw, k)
           /\ net_last' = [op |-> "outgoing", k |-> k, pid |-> Head(netw.ifc[k].outgoing_queue)]
           /\ LET pid == Head(netw.ifc[k].outgoing_queue)
              IN  net_crossed' =
                      IF \E j \in DOMAIN netw.ifc :
                             netw'.ifc[j].incoming_queue # netw.ifc[j].incoming_queue
                      THEN [net_crossed EXCEPT ![pid] = @ + 1]
                      ELSE net_crossed
    /\ pc' = next_position(netw', pc)
    /\ net_prev' = netw
    /\ UNCHANGED <<prefix_trie, routing_table, net_ops, net_taken, snapshot_index, configs, now, net_saved, bt_vars, avl_vars, trie_vars>>

\* the running tick takes the next packet from an incoming queue
ProcessIncoming ==
    /\ pc # Idle
    /\ pc.q = "in"
    /\ LET k == InterfaceAt(netw, pc)
       IN  /\ netw' = process_incoming_packet(netw, prefix_trie[k[1]],
                                             routing_table[k[1]].root, k)
           /\ net_last' = [op |-> "incoming", k |-> k, pid |-> Head(netw.ifc[k].incoming_queue)]
           /\ LET pid == Head(netw.ifc[k].incoming_queue)
              IN  net_taken' =
                      IF netw'.dev[k[1]].packets_forwarded # netw.dev[k[1]].packets_forwarded
                      THEN (<<pid, k[1]>> :> netw.packets[pid].ttl) @@ net_taken
                      ELSE net_taken
           \* forward_packet_from_interface calls get_inherited_policies and
           \* lookup; lookup is a recursion over the nodes that assigns nothing
           /\ LET pid == Head(netw.ifc[k].incoming_queue)
              IN  prefix_trie' =
                      IF /\ netw.ifc[k].ip_address # NoIp
                         /\ netw.packets[pid].destination_ip = netw.ifc[k].ip_address
                      THEN prefix_trie
                      ELSE [prefix_trie EXCEPT ![k[1]] =
                               Trie_after_get_inherited_policies(
                                   @, netw.packets[pid].destination_ip)]
    /\ pc' = next_position(netw', pc)
    /\ net_prev' = netw
    /\ UNCHANGED <<routing_table, net_ops, snapshot_index, configs, now, net_crossed, net_saved, bt_vars, avl_vars, trie_vars>>

\* ------------------------------------------------------ specifications
BTreeNext == \E key \in 1..MaxKey, value \in 1..MaxVal : BTInsert(key, value)

BTreeNextDistinct == \E key \in 1..DistinctKeys : BTInsertDistinct(key)

AVLNext ==
    \/ \E net \in Nets, metric \in 0..MaxMetric : AVLInsert(net, Hop1, metric, AvlMaxOps)
    \/ \E net \in Nets : AVLDelete(net, AvlMaxOps)

AVLNextHops ==
    \/ \E net \in Nets, next_hop \in {Hop1, Hop2}, metric \in 0..MaxMetric :
           AVLInsert(net, next_hop, metric, AvlHopOps)
    \/ \E net \in Nets : AVLDelete(net, AvlHopOps)

AVLNextDeep ==
    \/ \E net \in Nets, metric \in 0..MaxMetric : AVLInsert(net, Hop1, metric, AvlDeepOps)
    \/ \E net \in Nets : AVLDelete(net, AvlDeepOps)

TrieNext ==
    \/ \E pfx \in Prefixes, policy \in Policies : TrieSetPolicy(pfx, policy)
    \/ \E pfx \in Prefixes : TriePolicyUnset(pfx)

\* SnapshotIndex under arbitrary inserts
SpecBTree == Init /\ [][BTreeNext]_vars

\* SnapshotIndex under inserts of distinct keys
SpecBTreeDistinct == Init /\ [][BTreeNextDistinct]_vars

\* RouteIndex under inserts and deletes, one next hop
SpecAVL == Init /\ [][AVLNext]_vars

\* RouteIndex under inserts and deletes, two next hops
SpecAVLHops == Init /\ [][AVLNextHops]_vars

\* RouteIndex under longer sequences of inserts and deletes, one next hop
SpecAVLDeep == Init /\ [][AVLNextDeep]_vars

\* PolicyTrie under policy set and policy unset
SpecTrie == Init /\ [][TrieNext]_vars

\* every interface of the configured networks
NetInterfaces == UNION {DOMAIN t.ifc : t \in Topologies}

NetNext ==
    \/ \E d \in Senders, destination_ip \in NetDests, ttl \in 1..MaxTTL :
           SendPacket(d, destination_ip, ttl, MaxSends)
    \/ \E d \in PolicyDevices, pfx \in NetPrefixes, policy \in NetPolicies :
           PolicySet(d, pfx, policy, MaxAdmin)
    \/ \E route_net \in RouteNets, next_hop \in NextHops :
           RouteAdd("Core", route_net, next_hop, MaxAdmin)
    \/ \E k \in NetInterfaces : Shutdown(k, MaxAdmin)
    \/ \E new_name \in NewNames : Hostname("Core", new_name, MaxAdmin)
    \/ \E key \in SnapshotKeys : SaveSnapshot("Core", key, now, TRUE, MaxAdmin)
    \/ Tick(MaxTicks)
    \/ ProcessOutgoing
    \/ ProcessIncoming

\* the forwarding engine over the configured networks
SpecNet == InitNet /\ [][NetNext]_vars

\* The star whose Core is a router: PC1 sends to PC2 and PC3, Core gets a
\* policy on 10.0.0.0/16 or a route for it, via PC3 or via an address that no
\* neighbour has.
FwdPolicies == {<<"block", TRUE>>, <<"ttl-min", 2>>}
FwdNextHops == {Ip3, Hop1}

InitFwd == BTreeInit /\ AVLInit /\ TrieInit /\ NetConfigured({Star("router")})

FwdNext ==
    \/ \E destination_ip \in {Ip2, Ip3}, ttl \in 1..FwdTTL :
           SendPacket("PC1", destination_ip, ttl, FwdSends)
    \/ \E policy \in FwdPolicies : PolicySet("Core", Pfx16, policy, FwdAdmin)
    \/ \E next_hop \in FwdNextHops : RouteAdd("Core", Pfx16, next_hop, FwdAdmin)
    \/ \E key \in SnapshotKeys : SaveSnapshot("Core", key, now, TRUE, FwdAdmin)
    \/ Tick(FwdTicks)
    \/ ProcessOutgoing
    \/ ProcessIncoming

SpecFwd == InitFwd /\ [][FwdNext]_vars

\* Snapshots of Core in the star: routes are added first, then snapshots are
\* saved and loaded, as seconds pass, with files that can or cannot be
\* written and read.
Seconds == 1..MaxSeconds

InitSnap == BTreeInit /\ AVLInit /\ TrieInit /\ NetConfigured({Star("router")})

SnapNext ==
    \/ \E route_net \in RouteNets, next_hop \in NextHops :
           RouteAdd("Core", route_net, next_hop, SnapRoutes)
    \/ \E key \in SnapshotKeys, timestamp \in Seconds, writable \in BOOLEAN :
           SaveSnapshot("Core", key, timestamp, writable, SnapOps)
    \/ \E key \in SnapshotKeys, readable \in BOOLEAN :
           LoadSnapshot("Core", key, readable, SnapOps)

SpecSnap == InitSnap /\ [][SnapNext]_vars

\* Packets in the ring, in the ring with one link shut down and in the twin,
\* under a tick driver that never stops; no command but send is given.  Every
\* call of Network.tick runs its loops to the end and the driver calls it
\* again, hence the fairness conditions.
ShutDown(n, k) == [n EXCEPT !.ifc[k].is_up = FALSE]

LiveTopologies == {Ring, ShutDown(Ring, <<"S2", "g2">>), Twin}
LiveDests == {Ip2, Outside}

InitLive == BTreeInit /\ AVLInit /\ TrieInit /\ NetConfigured(LiveTopologies)

LiveNext ==
    \/ \E destination_ip \in LiveDests :
           SendPacket("PC1", destination_ip, LiveTTL, LiveSends)
    \/ RepeatedTick
    \/ ProcessOutgoing
    \/ ProcessIncoming

SpecLive ==
    /\ InitLive
    /\ [][LiveNext]_vars
    /\ WF_vars(RepeatedTick)
    /\ WF_vars(ProcessOutgoing)
    /\ WF_vars(ProcessIncoming)

\* The switch with the two-interface host: interfaces are shut down and
\* devices are set offline between sends and ticks.
DownInterfaces == DOMAIN Dual.ifc
DownDevices == DOMAIN Dual.dev

InitDown == BTreeInit /\ AVLInit /\ TrieInit /\ NetConfigured({Dual})

DownNext ==
    \/ \E ttl \in 1..DownTTL : SendPacket("PC1", Ip2, ttl, DownSends)
    \/ \E k \in DownInterfaces : Shutdown(k, DownAdmin)
    \/ \E d \in DownDevices : SetOffline(d, DownAdmin)
    \/ Tick(DownTicks)
    \/ ProcessOutgoing
    \/ ProcessIncoming

SpecDown == InitDown /\ [][DownNext]_vars

\* Connect, disconnect and shutdown commands on the interfaces of a host and
\* a switch, starting without links.
LinkInterfaces == DOMAIN Loose.ifc

InitLink == BTreeInit /\ AVLInit /\ TrieInit /\ NetConfigured({Loose})

LinkNext ==
    \/ \E k \in LinkInterfaces, other_interface \in LinkInterfaces :
           Connect(k, other_interface, LinkOps)
    \/ \E k \in LinkInterfaces, other_interface \in LinkInterfaces :
           Disconnect(k, other_interface, LinkOps)
    \/ \E k \in LinkInterfaces : Shutdown(k, LinkOps)

SpecLink == InitLink /\ [][LinkNext]_vars

\* ============================================================== claims
\* ------------------------------------------------------------ helpers
\* the actual height of the B-tree under a node
RECURSIVE btree_height(_)
btree_height(node) ==
    IF node.is_leaf \/ Len(node.children) = 0 THEN 1
    ELSE 1 + btree_height(node.children[1])

RECURSIVE actual_height(_)
actual_height(node) ==
    IF node = NoNode THEN 0
    ELSE 1 + Max(actual_height(node.left), actual_height(node.right))

RECURSIVE all_balanced(_)
all_balanced(node) ==
    \/ node = NoNode
    \/ /\ actual_height(node.left) - actual_height(node.right) \in {-1, 0, 1}
       /\ all_balanced(node.left)
       /\ all_balanced(node.right)

node_count(node) == Len(in_order(node))

\* ceil(1.44 * log2(n + 2)) for n = 0, 1, ..., 9 stored nodes
HeightBound(n) == <<2, 3, 3, 4, 4, 5, 5, 5, 5, 5>>[n + 1]

RouteOf(node) == <<node.prefix, node.mask, node.metric, node.next_hop>>

\* the routes of a tree, in traversal order
Routes(root) == [i \in 1..node_count(root) |-> RouteOf(in_order(root)[i])]

Count(seq, x) == Cardinality({i \in 1..Len(seq) : seq[i] = x})

Range(seq) == {seq[i] : i \in 1..Len(seq)}

MaskLen(mask) == PopCount(mask[1]) + PopCount(mask[2]) + PopCount(mask[3]) + PopCount(mask[4])

Contains(net, ip) == ip_in_network(ip, net.prefix, net.mask)

\* the trie node at the end of a bit path, NoNode when the path leaves the trie
RECURSIVE node_at(_, _, _)
node_at(node, bits, i) ==
    IF i > Len(bits) THEN node
    ELSE IF bits[i] \in DOMAIN node.children THEN node_at(node.children[bits[i]], bits, i + 1)
    ELSE NoNode

\* the configured prefixes that contain an address, and the longest of a set
ConfContaining(a) == {p \in trie_conf : Contains(p, a)}

Longest(ps) == CHOOSE p \in ps : \A q \in ps : MaskLen(q.mask) <= MaskLen(p.mask)

\* ----------------------------------------------------------------- C1
\* C1: after any sequence of SnapshotIndex.insert calls, search(k) returns,
\* for every key k inserted so far, a value that was inserted under k.
C1_NoInsertedKeyLost ==
    \A p \in bt_inserted :
        LET v == BTree_search(p[1])
        IN  v # None /\ <<p[1], v>> \in bt_inserted

\* ----------------------------------------------------------------- C2
\* C2: with order 4, the insertion of 8 distinct keys into an empty index
\* completes with split count 1 and height 2, and search finds all 8 keys.
C2_EightDistinctKeys ==
    bt_ops = 8 =>
        /\ ~bt_last.raised
        /\ bt_stats.splits = 1
        /\ bt_stats.height = 2
        /\ btree_height(bt_root) = 2
        /\ Cardinality(bt_inserted) = 8
        /\ \A p \in bt_inserted : BTree_search(p[1]) # None

\* ----------------------------------------------------------------- C3
\* C3: after any sequence of RouteIndex inserts and deletes, the actual
\* heights of the two subtrees of every node differ by at most 1, and the
\* height of the tree is at most ceil(1.44 * log2(n + 2)) for n nodes.
C3_AVLBalanced ==
    /\ all_balanced(avl_root)
    /\ actual_height(avl_root) <= HeightBound(node_count(avl_root))

\* a delete that removed a node and rotated on the way back up
C3_DeleteRotated ==
    /\ avl_last.op = "delete"
    /\ node_count(avl_root) = node_count(avl_prev.root) - 1
    /\ avl_stats # avl_prev.stats

\* ----------------------------------------------------------------- C4
\* C4: after any sequence of RouteIndex inserts and deletes, the in-order
\* traversal lists the routes in strictly increasing (prefix, mask, metric)
\* order, so each stored route once.
C4_InOrderStrictlyIncreasing ==
    LET seq == in_order(avl_root)
    IN  \A i \in 1..(Len(seq) - 1) :
            compare_routes(KeyOf(seq[i]), KeyOf(seq[i + 1])) < 0

\* ----------------------------------------------------------------- C5
\* C5: delete(prefix, mask), called when some stored route has that
\* (prefix, mask), removes exactly one such route; every other route stored
\* before the call is stored exactly as often after it.
C5_DeleteRemovesExactlyOne ==
    LET before == Routes(avl_prev.root)
        after  == Routes(avl_root)
        hit    == {r \in Range(before) : r[1] = avl_last.prefix /\ r[2] = avl_last.mask}
    IN  (avl_last.op = "delete" /\ hit # {}) =>
            \E gone \in hit :
                \A r \in Range(before) \cup Range(after) :
                    Count(after, r) = Count(before, r) - (IF r = gone THEN 1 ELSE 0)

\* ----------------------------------------------------------------- C6
\* C6: in an index reached by inserts, after insert(p, m, h, metric), lookup
\* of every address inside (p, m) returns a route with next hop h, provided
\* no more specific route that contains the address lies to the right of
\* (p, m, metric) in tree order.
C6_InsertThenLookup ==
    (avl_last.op = "insert" /\ avl_deletes = 0) =>
        \A addr \in Dests :
            LET key      == <<avl_last.prefix, avl_last.mask, avl_last.metric>>
                seq      == in_order(avl_root)
                shadowed == \E i \in 1..Len(seq) :
                                /\ compare_routes(KeyOf(seq[i]), key) > 0
                                /\ MaskLen(seq[i].mask) > MaskLen(avl_last.mask)
                                /\ Contains(seq[i], addr)
                found    == AVL_lookup(avl_root, addr)
            IN  (Contains(avl_last, addr) /\ ~shadowed) =>
                    (found # NoNode /\ found.next_hop = avl_last.next_hop)

\* ----------------------------------------------------------------- C7
\* C7: lookup(dest) is a longest-prefix match: among the stored routes whose
\* network contains dest it returns one with the longest mask.
C7_LongestPrefixMatch ==
    \A dest \in Dests :
        LET seq   == in_order(avl_root)
            cands == {i \in 1..Len(seq) : Contains(seq[i], dest)}
            found == AVL_lookup(avl_root, dest)
        IN  cands # {} =>
                /\ found # NoNode
                /\ Contains(found, dest)
                /\ \A i \in cands : MaskLen(seq[i].mask) <= MaskLen(found.mask)

\* ----------------------------------------------------------------- C8
\* C8: every policy set on a prefix, of any length, is among the inherited
\* policies of every address inside that prefix.
C8_PolicyAppliesInsidePrefix ==
    \A pfx \in Prefixes : \A kind \in DOMAIN trie_pol[pfx] : \A a \in Addrs :
        Contains(pfx, a) => kind \in DOMAIN get_inherited_policies(trie_root, a)

\* ----------------------------------------------------------------- C9
\* C9: when two or more configured prefixes contain an address, each kind
\* that some of them defines is inherited, with the value set on the longest
\* prefix that defines it: the longer prefix overrides, the kinds of the
\* shorter prefix alone are kept.
C9_LongerOverridesShorterKept ==
    \A a \in Addrs : \A kind \in Kinds :
        LET defining == {p \in ConfContaining(a) : kind \in DOMAIN trie_pol[p]}
            got      == get_inherited_policies(trie_root, a)
        IN  (Cardinality(ConfContaining(a)) >= 2 /\ defining # {}) =>
                /\ kind \in DOMAIN got
                /\ got[kind] = trie_pol[Longest(defining)][kind]

\* ---------------------------------------------------------------- C10
\* C10: longestPrefixMatch returns the terminal node of the longest
\* configured prefix that contains the address, and none only when no
\* configured prefix contains it.
C10_LongestConfiguredPrefix ==
    \A a \in Addrs :
        LET conf  == ConfContaining(a)
            found == longest_prefix_match(trie_root, a)
        IN  IF conf = {} THEN found = NoNode
            ELSE LET p == Longest(conf)
                 IN  found = node_at(trie_root, prefix_to_bits(p.prefix, p.mask), 1)

\* ------------------------------------------- forwarding: claim helpers
\* The last step took the packet LastPid from a queue of the interface net_last.k
\* of the device LastDev; PacketBefore and PacketAfter are that packet before
\* and after the step.
LastDev == net_last.k[1]
LastPid == net_last.pid
PacketBefore == net_prev.packets[LastPid]
PacketAfter == netw.packets[LastPid]

\* the policies the device of the last step inherits for the packet's destination
LastPolicies == get_inherited_policies(prefix_trie[LastDev], PacketBefore.destination_ip)

\* the last step took a packet from an incoming queue
TookIncoming == net_last.op = "incoming"

\* the last step took a packet from an outgoing queue
TookOutgoing == net_last.op = "outgoing"

\* the packet of the last step is addressed to the interface it arrived on
ForThisInterface ==
    /\ net_prev.ifc[net_last.k].ip_address # NoIp
    /\ PacketBefore.destination_ip = net_prev.ifc[net_last.k].ip_address

\* the interfaces of device d
InterfacesOf(d) == {k \in DOMAIN netw.ifc : k[1] = d}

\* the interfaces of the device of the last step whose outgoing queue the step
\* appended the packet to
Placed ==
    {k \in InterfacesOf(LastDev) :
        netw.ifc[k].outgoing_queue = Append(net_prev.ifc[k].outgoing_queue, LastPid)}

\* the last step left every outgoing queue of its device as it was
NothingPlaced ==
    \A k \in InterfacesOf(LastDev) :
        netw.ifc[k].outgoing_queue = net_prev.ifc[k].outgoing_queue

\* the last step appended an entry of this type to its device's error log
Logged(error_type) ==
    netw.dev[LastDev].error_log = Append(net_prev.dev[LastDev].error_log, error_type)

\* C11: on a device whose inherited policies for the destination contain
\* block, a packet taken from an incoming queue is dropped with the
\* policy-block reason before anything else happens to it: the step does not
\* mark it delivered, does not enter it in the device's message history and
\* places it on no outgoing queue of the device.
C11_BlockDropsFirst ==
    (TookIncoming /\ "block" \in DOMAIN LastPolicies) =>
        /\ PacketAfter.dropped
        /\ PacketAfter.drop_reason = "Blocked by policy"
        /\ PacketAfter.delivered = PacketBefore.delivered
        /\ netw.dev[LastDev].message_history = net_prev.dev[LastDev].message_history
        /\ NothingPlaced

\* the packet of the last step passes the policy check of its device
PassesPolicy ==
    /\ "block" \notin DOMAIN LastPolicies
    /\ ~("ttl-min" \in DOMAIN LastPolicies /\ PacketBefore.ttl < LastPolicies["ttl-min"])

\* the ttl-min rule dropped the packet in the last step
DroppedBelowMinimum ==
    /\ PacketAfter.dropped
    /\ PacketAfter.drop_reason = "TTL below minimum"
    /\ Logged("PolicyTTL")

\* C12: a packet that a device forwards while its inherited policies for the
\* destination contain ttl-min = N and no block is dropped with the
\* ttl-below-minimum reason exactly when its TTL at that moment is below N;
\* with TTL >= N the rule leaves the packet's drop reason and the error log
\* alone.
C12_TtlMinDropsExactlyBelow ==
    (/\ TookIncoming
     /\ ~ForThisInterface
     /\ "ttl-min" \in DOMAIN LastPolicies
     /\ "block" \notin DOMAIN LastPolicies) =>
        IF PacketBefore.ttl < LastPolicies["ttl-min"]
        THEN DroppedBelowMinimum /\ NothingPlaced
        ELSE /\ ~Logged("PolicyTTL")
             /\ PacketAfter.drop_reason = "TTL below minimum"
                    => PacketBefore.drop_reason = "TTL below minimum"

\* C12 witness: a forwarded packet with TTL 1 met ttl-min = 2 and was dropped
C12_DroppedBelowMinimum ==
    /\ TookIncoming
    /\ ~ForThisInterface
    /\ "ttl-min" \in DOMAIN LastPolicies
    /\ "block" \notin DOMAIN LastPolicies
    /\ PacketBefore.ttl < LastPolicies["ttl-min"]
    /\ ~PacketBefore.dropped
    /\ DroppedBelowMinimum

\* the route the device of the last step finds for the packet's destination
LastRoute == AVL_lookup(routing_table[LastDev].root, PacketBefore.destination_ip)

\* the up interfaces of that device, other than the arrival interface, that
\* have a neighbour whose address is the route's next hop
NextHopInterfaces ==
    IF LastRoute = NoNode THEN {}
    ELSE {k \in InterfacesOf(LastDev) :
            /\ k # net_last.k
            /\ net_prev.ifc[k].is_up
            /\ \E c \in 1..Len(net_prev.ifc[k].connected_interfaces) :
                   net_prev.ifc[net_prev.ifc[k].connected_interfaces[c]].ip_address
                       = LastRoute.next_hop}

\* C14: on a non-switch device, when lookup returns a route and some up
\* interface other than the arrival interface has a neighbour with the
\* route's next hop as its address, the packet is placed on the outgoing
\* queue of exactly one interface, which is such a next-hop interface; in
\* every case at most one interface gets the packet, never the arrival
\* interface, and the other outgoing queues stay as they were.
C14_NextHopInterfaceChosen ==
    (/\ TookIncoming
     /\ ~ForThisInterface
     /\ PassesPolicy
     /\ net_prev.dev[LastDev].device_type # "switch") =>
        /\ NextHopInterfaces # {} =>
               (Cardinality(Placed) = 1 /\ Placed \subseteq NextHopInterfaces)
        /\ Cardinality(Placed) <= 1
        /\ net_last.k \notin Placed
        /\ \A k \in InterfacesOf(LastDev) \ Placed :
               netw.ifc[k].outgoing_queue = net_prev.ifc[k].outgoing_queue

\* C14 witness: the packet went to the next-hop interface although an earlier
\* interface, up and connected, was there for the fallback
C14_NextHopOverFallback ==
    /\ TookIncoming
    /\ ~ForThisInterface
    /\ PassesPolicy
    /\ net_prev.dev[LastDev].device_type # "switch"
    /\ Placed # {}
    /\ Placed \subseteq NextHopInterfaces
    /\ \E k \in InterfacesOf(LastDev) \ NextHopInterfaces :
           /\ k # net_last.k
           /\ net_prev.ifc[k].is_up
           /\ net_prev.ifc[k].connected_interfaces # <<>>

\* C20: a packet taken from the incoming queue of an interface whose own
\* address is the packet's destination is marked delivered and nothing else
\* of it changes, it becomes the first entry of the device's message history
\* (the earlier entries follow in their order), and the device places it on
\* no outgoing queue.
C20_DeliveredLocally ==
    (TookIncoming /\ ForThisInterface) =>
        /\ PacketAfter = [PacketBefore EXCEPT !.delivered = TRUE]
        /\ netw.dev[LastDev].message_history
               = <<LastPid>> \o net_prev.dev[LastDev].message_history
        /\ NothingPlaced

\* C20 witness: a second packet is delivered to a device whose history holds
\* a first one
C20_SecondDelivery ==
    /\ TookIncoming
    /\ ForThisInterface
    /\ PacketAfter.delivered
    /\ net_prev.dev[LastDev].message_history # <<>>
    /\ LastPid \notin Range(net_prev.dev[LastDev].message_history)

\* C13: on a switch or a hub, a packet that passes the policy check is
\* flooded: it is placed on the outgoing queue of every up interface, other
\* than the arrival interface, that has at least one connected neighbour.
C13_SwitchOrHubFloods ==
    (/\ TookIncoming
     /\ ~ForThisInterface
     /\ PassesPolicy
     /\ net_prev.dev[LastDev].device_type \in {"switch", "hub"}) =>
        \A k \in InterfacesOf(LastDev) :
            (/\ k # net_last.k
             /\ net_prev.ifc[k].is_up
             /\ net_prev.ifc[k].connected_interfaces # <<>>) => k \in Placed

\* C15: when the hand-off of a packet lowers its TTL to zero or below, the
\* packet is dropped with the ttl-expired reason, no neighbour receives it,
\* and its hop trace includes the device that dropped it.
C15_ExpiryDropRecordsHop ==
    (TookOutgoing /\ PacketBefore.ttl - 1 <= 0) =>
        /\ PacketAfter.dropped
        /\ PacketAfter.drop_reason = "TTL expired"
        /\ \A k \in DOMAIN netw.ifc :
               netw.ifc[k].incoming_queue = net_prev.ifc[k].incoming_queue
        /\ LastDev \in Range(PacketAfter.route_trace)

\* C16: delivered and dropped are terminal: a packet whose delivered or
\* dropped flag is set is not changed by any later step, and no packet is
\* both delivered and dropped.
C16_TerminalStates ==
    \A pid \in 1..Len(net_prev.packets) :
        /\ (net_prev.packets[pid].delivered \/ net_prev.packets[pid].dropped)
               => netw.packets[pid] = net_prev.packets[pid]
        /\ ~(netw.packets[pid].delivered /\ netw.packets[pid].dropped)

\* C17: a packet is recorded as delivered at most once per destination
\* device: no message history holds the same packet twice.
C17_DeliveredAtMostOnce ==
    \A d \in DOMAIN netw.dev : \A pid \in 1..Len(netw.packets) :
        Count(netw.dev[d].message_history, pid) <= 1

\* C18: each device that forwards a packet lowers its TTL by exactly 1: after
\* a hand-off by a device the packet's TTL is one less than it was when the
\* device accepted the packet, however many interfaces it was queued on.
C18_OneDecrementPerHop ==
    TookOutgoing => PacketAfter.ttl = net_taken[<<LastPid, LastDev>>] - 1

\* C19: every step in which a device marks a packet dropped appends an entry
\* to that device's error log.
C19_DropIsLogged ==
    (/\ TookIncoming \/ TookOutgoing
     /\ PacketAfter.dropped
     /\ ~PacketBefore.dropped \/ PacketAfter.drop_reason # PacketBefore.drop_reason) =>
        Len(netw.dev[LastDev].error_log) = Len(net_prev.dev[LastDev].error_log) + 1

\* ------------------------------------------------------------- tick order
\* the order in which the devices of the configured networks were registered
\* with add_device
Registered == <<"PC1", "Core", "PC2", "PC3">>

IndexOf(seq, x) == CHOOSE i \in 1..Len(seq) : seq[i] = x

ProcessingSteps == {"outgoing", "incoming"}

\* where a processing step stands in the order the claim gives a tick: the
\* device by registration, the interface by Device.interfaces, outgoing first
StepPosition(last) ==
    <<IndexOf(Registered, last.k[1]),
      IndexOf(netw.dev[last.k[1]].interfaces, last.k[2]),
      IF last.op = "outgoing" THEN 0 ELSE 1>>

LexLeq(a, b) ==
    \/ a[1] < b[1]
    \/ a[1] = b[1] /\ a[2] < b[2]
    \/ a[1] = b[1] /\ a[2] = b[2] /\ a[3] <= b[3]

\* C21: two packets processed one after the other in the same tick are taken
\* in the order of the claim: devices in registration order, on a device the
\* interfaces in the order they were added, on an interface the outgoing
\* queue before the incoming queue.  (Between two ticks there is a step that
\* calls Network.tick, so consecutive processing steps belong to one tick.)
C21_TickInRegistrationOrder ==
    [][(net_last.op \in ProcessingSteps /\ net_last'.op \in ProcessingSteps)
          => LexLeq(StepPosition(net_last), StepPosition(net_last'))]_vars

\* ------------------------------------------------------- tick and indices
\* the steps of Network.tick: the call, and each packet it processes
TickSteps == {"tick", "outgoing", "incoming"}

\* C22: a step of Network.tick leaves the RouteIndex, the PolicyTrie and the
\* SnapshotIndex of every device as they were, so the indices after a tick are
\* the indices before it.
C22_TickLeavesIndices ==
    [][net_last'.op \in TickSteps
          => /\ prefix_trie' = prefix_trie
             /\ routing_table' = routing_table
             /\ snapshot_index' = snapshot_index]_vars

\* C22 witness: the tick forwarded a packet on a device that has policies for
\* its destination, so get_inherited_policies went down the trie
C22_ForwardedUnderPolicies ==
    /\ TookIncoming
    /\ ~ForThisInterface
    /\ LastPolicies # EmptyMap
    /\ Placed # {}

\* ------------------------------------------------- RouteIndex, insert again
\* the tree with the key of every node in its place, next hops left out
RECURSIVE Shape(_)
Shape(node) ==
    IF node = NoNode THEN NoNode
    ELSE <<KeyOf(node), node.height, Shape(node.left), Shape(node.right)>>

\* the keys of a tree, in traversal order
Keys(root) == [i \in 1..node_count(root) |-> KeyOf(in_order(root)[i])]

LastKey == <<avl_last.prefix, avl_last.mask, avl_last.metric>>

\* the last call was an insert with a key that was stored
InsertedStoredKey == avl_last.op = "insert" /\ LastKey \in Range(Keys(avl_prev.root))

\* C23: insert(prefix, mask, next_hop, metric) with a stored (prefix, mask,
\* metric) leaves the tree as it was, node for node, except that the node
\* with that key has the new next hop; there is one node with that key.
C23_InsertStoredKeyOverwrites ==
    InsertedStoredKey =>
        /\ Shape(avl_root) = Shape(avl_prev.root)
        /\ node_count(avl_root) = node_count(avl_prev.root)
        /\ Count(Keys(avl_root), LastKey) = 1
        /\ \A i \in 1..node_count(avl_root) :
               in_order(avl_root)[i].next_hop =
                   IF Keys(avl_root)[i] = LastKey THEN avl_last.next_hop
                   ELSE in_order(avl_prev.root)[i].next_hop

\* ------------------------------------------- RouteIndex, delete of nothing
\* the last call was a delete of a (prefix, mask) that no stored route had
DeletedAbsent ==
    /\ avl_last.op = "delete"
    /\ \A r \in Range(Routes(avl_prev.root)) :
           ~(r[1] = avl_last.prefix /\ r[2] = avl_last.mask)

\* C24: delete(prefix, mask) with no stored route of that (prefix, mask)
\* leaves the tree as it was: the same nodes with the same routes and heights
\* in the same places, and no rotation counted.
C24_DeleteAbsentIsNoOp ==
    DeletedAbsent => (avl_root = avl_prev.root /\ avl_stats = avl_prev.stats)

\* C24 witness: such a delete went down a tree of height three that leans
C24_DeleteAbsentInLeaningTree ==
    /\ DeletedAbsent
    /\ actual_height(avl_prev.root) = 3
    /\ get_balance(avl_prev.root) # 0

\* ------------------------------------------------ RouteIndex, A then B then C
\* the three calls so far were inserts of routes with prefixes in ascending
\* string order: two inserts left a root with a right child only, and the
\* third prefix is above both
ThreeAscendingInserts ==
    /\ avl_ops = 3
    /\ avl_deletes = 0
    /\ avl_last.op = "insert"
    /\ avl_prev.root # NoNode
    /\ avl_prev.root.left = NoNode
    /\ avl_prev.root.right # NoNode
    /\ StrLess(avl_prev.root.prefix, avl_prev.root.right.prefix)
    /\ StrLess(avl_prev.root.right.prefix, avl_last.prefix)

\* C25: after three inserts with ascending prefixes into an empty RouteIndex
\* rotations_ll is one.
C25_AscendingCountsLL == ThreeAscendingInserts => avl_stats.rotations_ll = 1

\* --------------------------------------------- RouteIndex, rotation counters
Counters == {"rotations_ll", "rotations_lr", "rotations_rl", "rotations_rr"}

\* the counters the last call changed
Counted == {c \in Counters : avl_stats[c] # avl_prev.stats[c]}

\* C26: an insert rebalances at most one node, so it raises at most one
\* rotation counter, by one, and leaves the other three as they were; an
\* insert that raises rotations_lr or rotations_rl raises nothing else.
C26_OneCounterPerRebalancing ==
    avl_last.op = "insert" =>
        /\ Cardinality(Counted) <= 1
        /\ \A c \in Counted : avl_stats[c] = avl_prev.stats[c] + 1

\* ------------------------------------------------- PolicyTrie, setPolicy
\* the bit paths of the nodes of a trie
RECURSIVE Paths(_)
Paths(node) ==
    {<<>>} \cup UNION {{<<bit>> \o path : path \in Paths(node.children[bit])} :
                          bit \in DOMAIN node.children}

\* the policies of the node at a bit path; none where the trie has no node
PoliciesAt(root, path) ==
    IF node_at(root, path, 1) = NoNode THEN EmptyMap
    ELSE node_at(root, path, 1).policies

\* the bit path of the prefix of the last call
LastPath == prefix_to_bits(trie_last.pfx.prefix, trie_last.pfx.mask)

\* C27: setPolicy(prefix, mask, kind, value) gives the terminal node of
\* (prefix, mask) the value for kind, keeps every other kind that node had,
\* and leaves the policies of every other node as they were (a node made on
\* the way has none).
C27_SetPolicyChangesOneMapping ==
    trie_last.op = "set" =>
        /\ PoliciesAt(trie_root, LastPath) =
               DictUpdate(PoliciesAt(trie_prev, LastPath),
                          trie_last.kind :> trie_last.value)
        /\ \A path \in (Paths(trie_root) \cup Paths(trie_prev)) \ {LastPath} :
               PoliciesAt(trie_root, path) = PoliciesAt(trie_prev, path)

\* C27 witness: the node had another kind, and another node has policies
C27_SetBesideOtherPolicies ==
    /\ trie_last.op = "set"
    /\ DOMAIN PoliciesAt(trie_prev, LastPath) \ {trie_last.kind} # {}
    /\ \E path \in Paths(trie_prev) \ {LastPath} : PoliciesAt(trie_prev, path) # EmptyMap

\* ------------------------------------------------- PolicyTrie, policy unset
\* another prefix than the one of the last call contains the address and its
\* terminal node holds the kind
SuppliedByAnother(a, kind) ==
    \E q \in Prefixes \ {trie_last.pfx} :
        /\ Contains(q, a)
        /\ kind \in DOMAIN PoliciesAt(trie_root, prefix_to_bits(q.prefix, q.mask))

\* C28: after "policy unset <prefix> <mask>", the kinds that were set on
\* that prefix are no longer among the inherited policies of an address
\* inside it, unless another prefix supplies them.
C28_UnsetRemovesPolicies ==
    trie_last.op = "unset" =>
        \A a \in Addrs : \A kind \in DOMAIN PoliciesAt(trie_prev, LastPath) :
            (Contains(trie_last.pfx, a) /\ ~SuppliedByAnother(a, kind)) =>
                kind \notin DOMAIN get_inherited_policies(trie_root, a)

\* ------------------------------------------- SnapshotIndex, the traversal
\* the (key, value) pairs inserts can be called with
Pairs == (1..Max(MaxKey, DistinctKeys)) \X (1..MaxVal)

\* C29: the traversal lists every (key, value) pair as often as an insert
\* call with that pair has returned, in non-decreasing key order.
C29_TraversalListsEveryInsert ==
    LET seq == BTree_in_order_traversal(bt_root)
    IN  /\ \A pair \in Pairs : Count(seq, pair) = bt_count[pair]
        /\ \A i \in 1..(Len(seq) - 1) : seq[i][1] <= seq[i + 1][1]

\* ------------------------------------------- SnapshotIndex, node invariant
\* the bounds on a node and on all nodes under it
RECURSIVE NodesInBounds(_, _)
NodesInBounds(node, is_root) ==
    /\ Len(node.keys) <= (2 * order) - 1
    /\ is_root \/ Len(node.keys) >= order - 1
    /\ node.is_leaf \/ Len(node.children) = Len(node.keys) + 1
    /\ \A i \in 1..Len(node.children) : NodesInBounds(node.children[i], FALSE)

\* the last insert found the root full
InsertedIntoFullRoot ==
    bt_last.op = "insert" /\ Len(bt_prev.keys) = (2 * order) - 1

\* C30: every node is within the bounds of the order, and an insert that
\* finds the root full splits it: the new root holds the median key of the
\* full node, above the two halves.
C30_NodeBoundsAndMedianPromoted ==
    /\ NodesInBounds(bt_root, TRUE)
    /\ InsertedIntoFullRoot =>
           /\ ~bt_root.is_leaf
           /\ bt_root.keys = <<bt_prev.keys[order]>>
           /\ Len(bt_root.children) = 2

\* ------------------------------------------- SnapshotIndex, the counters
\* the nodes reachable from a node, itself included
RECURSIVE btree_nodes(_)
btree_nodes(node) ==
    LET upto[i \in 0..Len(node.children)] ==
            IF i = 0 THEN 0 ELSE upto[i - 1] + btree_nodes(node.children[i])
    IN  1 + upto[Len(node.children)]

\* Every split that was carried out added one node beside the split one, and
\* a split of the root added the new root as well, which is one more level:
\* the splits carried out are the nodes beyond one per level.
SplitsCarriedOut == btree_nodes(bt_root) - btree_height(bt_root)

\* C31: after any sequence of insert calls the counters agree with the tree:
\* stats.height is the height of the tree, stats.nodes the number of nodes
\* reachable from the root, stats.splits the number of splits carried out.
C31_CountersAgreeWithTree ==
    /\ bt_stats.height = btree_height(bt_root)
    /\ bt_stats.nodes = btree_nodes(bt_root)
    /\ bt_stats.splits = SplitsCarriedOut

\* ------------------------------------------- SnapshotIndex, equal keys
\* the last insert was called with a key the tree held
InsertedPresentKey ==
    /\ bt_last.op = "insert"
    /\ \E pair \in Range(BTree_in_order_traversal(bt_prev)) : pair[1] = bt_last.key

\* C32: an insert of a key that is present adds a second entry: the traversal
\* after the call is the traversal before it with the new (key, value) placed
\* directly behind the last entry of that key, so it is one entry longer and
\* lists the entries of equal key in the order they were inserted.
C32_EqualKeyAddsEntryBehind ==
    InsertedPresentKey =>
        LET before == BTree_in_order_traversal(bt_prev)
            after  == BTree_in_order_traversal(bt_root)
            last   == CHOOSE i \in 1..Len(before) :
                          /\ before[i][1] = bt_last.key
                          /\ \A j \in (i + 1)..Len(before) : before[j][1] # bt_last.key
        IN  after = SubSeq(before, 1, last)
                    \o << <<bt_last.key, bt_last.value>> >>
                    \o SubSeq(before, last + 1, Len(before))

\* ------------------------------------------- snapshots, failure
\* a step of save_snapshot or load_snapshot that answers (False, message)
SnapshotFailed ==
    /\ net_ops'.admin = net_ops.admin + 1
    /\ net_last'.op \in {"snapshot", "load"}
    /\ ~net_last'.success

\* C33: save_snapshot and load_snapshot answer a failure with (False,
\* message), and a call that answers so leaves the device's RouteIndex and
\* SnapshotIndex with exactly the entries they held before the call.
C33_FailureLeavesIndices ==
    [][SnapshotFailed =>
           LET d == net_last'.d
           IN  /\ BTree_in_order_traversal(snapshot_index'[d].root)
                      = BTree_in_order_traversal(snapshot_index[d].root)
               /\ exported_routes(routing_table'[d].root)
                      = exported_routes(routing_table[d].root)]_vars

\* ------------------------------------------- forwarding, hops per tick
\* C34: one tick moves each packet over at most one link: during a single
\* Network.tick no packet is moved from an outgoing queue into a neighbour's
\* incoming queue more than once.
C34_OneHopPerTick ==
    \A pid \in DOMAIN net_crossed : net_crossed[pid] <= 1

\* ------------------------------------------- forwarding, termination
\* the packet is in a queue of some interface
InSomeQueue(pid) ==
    \E k \in DOMAIN netw.ifc :
        \/ \E i \in 1..Len(netw.ifc[k].outgoing_queue) : netw.ifc[k].outgoing_queue[i] = pid
        \/ \E i \in 1..Len(netw.ifc[k].incoming_queue) : netw.ifc[k].incoming_queue[i] = pid

\* Device.send_packet has accepted the packet
Accepted(pid) == pid <= Len(netw.packets)

\* the packet is delivered or dropped and no queue holds it
AtRest(pid) ==
    /\ Accepted(pid)
    /\ netw.packets[pid].delivered \/ netw.packets[pid].dropped
    /\ ~InSomeQueue(pid)

\* C35: with no command but send after a packet was accepted, the tick driver
\* brings every accepted packet to rest: eventually it is delivered or dropped
\* and in no queue, also where switches flood it around a ring.
C35_EveryPacketComesToRest ==
    \A pid \in 1..LiveSends : Accepted(pid) ~> AtRest(pid)

\* a packet that came to rest in the ring after the first switch forwarded it,
\* another switch forwarded it, and the first switch forwarded it again
C35_RestAfterRoundTrip ==
    /\ netw.order = Ring.order
    /\ AtRest(1)
    /\ LET trace == netw.packets[1].route_trace
       IN  \E a, b, c \in 1..Len(trace) :
               /\ a < b /\ b < c
               /\ trace[a] = "S1" /\ trace[b] \in {"S2", "S3"} /\ trace[c] = "S1"

\* ------------------------------------------- RouteIndex, empty lookups
\* C36: lookup(addr) is empty only when no stored route contains addr: where
\* some stored route contains addr, lookup returns a stored route that
\* contains addr.
C36_LookupFindsContainingRoute ==
    \A dest \in Dests :
        LET seq   == in_order(avl_root)
            found == AVL_lookup(avl_root, dest)
        IN  (\E i \in 1..Len(seq) : Contains(seq[i], dest)) =>
                /\ found # NoNode
                /\ \E i \in 1..Len(seq) : seq[i] = found
                /\ Contains(found, dest)

\* ------------------------------------------- RouteIndex, the size counter
\* C38: after any sequence of inserts and deletes the size counter, which is
\* shown as the node count, is the number of nodes in the tree.
C38_SizeIsNodeCount ==
    avl_size = node_count(avl_root)

\* ------------------------------------------- snapshots, save and load
\* the routes (prefix, mask, next hop, metric) a route list or a tree holds
RouteSet(routes) == Range(routes)

\* the last step was a load_snapshot that answered success
Loaded == net_last.op = "load" /\ net_last.success

\* C37: a load_snapshot(key) that follows successful save_snapshot(key) calls
\* leaves the RouteIndex with exactly the routes the device held at the most
\* recent of them.
C37_LoadRestoresLatestSave ==
    Loaded =>
        RouteSet(exported_routes(routing_table[net_last.d].root))
            = RouteSet(net_saved[<<net_last.d, net_last.key>>])

\* ------------------------------------------- queues of down interfaces
\* s is t without some of its first entries
IsSuffix(s, t) ==
    Len(s) <= Len(t) /\ s = SubSeq(t, Len(t) - Len(s) + 1, Len(t))

\* interface k is up and its device is online
Active(n, k) == n.ifc[k].is_up /\ n.dev[k[1]].is_online

\* send_packet and receive_packet on interface k, as the claim describes them
EnqueuesWhenActive(k, pid) ==
    LET s == send_packet(netw, k, pid)
        r == receive_packet(netw, k, pid)
    IN  IF Active(netw, k)
        THEN /\ s.ok /\ r.ok
             /\ s.net.ifc[k].outgoing_queue = Append(netw.ifc[k].outgoing_queue, pid)
             /\ r.net.ifc[k].incoming_queue = Append(netw.ifc[k].incoming_queue, pid)
        ELSE /\ ~s.ok /\ ~r.ok
             /\ s.net.ifc[k] = netw.ifc[k]
             /\ r.net.ifc[k] = netw.ifc[k]

\* C39: send_packet and receive_packet enqueue exactly when the interface is
\* up and its device online, and otherwise answer failure and leave both
\* queues alone; no step of the network adds a packet to a queue of an
\* interface that is down or whose device is offline.
C39_NoPacketIntoDownQueue ==
    [][/\ \A k \in DOMAIN netw.ifc, pid \in 1..Len(netw.packets) :
              EnqueuesWhenActive(k, pid)
       /\ \A k \in DOMAIN netw.ifc :
              \/ Active(netw, k)
              \/ /\ IsSuffix(netw'.ifc[k].outgoing_queue, netw.ifc[k].outgoing_queue)
                 /\ IsSuffix(netw'.ifc[k].incoming_queue, netw.ifc[k].incoming_queue)]_vars

\* a send that the CLI started from the address of an up interface and that
\* Device.send_packet took to the down interface with the same address, where
\* send_packet refused it
C39_SendRefusedOnDownInterface ==
    /\ net_last.op = "send-failed"
    /\ net_last.k # NoInterface
    /\ ~net_prev.ifc[net_last.k].is_up
    /\ net_prev.dev[net_last.k[1]].is_online
    /\ netw = net_prev

\* ------------------------------------------- the neighbour relation
\* interface k lists interface j as a neighbour
Lists(k, j) == j \in Range(netw.ifc[k].connected_interfaces)

\* C40: after any sequence of connect and disconnect commands the neighbour
\* relation is symmetric, X lists Y exactly when Y lists X, and no interface
\* lists a neighbour more than once.
C40_NeighboursSymmetricAndUnique ==
    \A k \in DOMAIN netw.ifc, j \in DOMAIN netw.ifc :
        /\ Lists(k, j) <=> Lists(j, k)
        /\ Count(netw.ifc[k].connected_interfaces, j) <= 1


====
